---- MODULE Spec2Model ----
(***************************************************************************)
(* pypgcdc: the logical replication session of LogicalReplicationReader    *)
(* (src/pypgcdc/reader.py): scope entry and exit, the per-message callback *)
(* __call__, transform_raw and the message processors, the schema catalog  *)
(* (MetadataStore) and the consumer handlers.                              *)
(***************************************************************************)
EXTENDS Integers, Sequences, FiniteSets, TLC

\* ------------------------------------------------------------------ bounds
\* wire messages dispatched to one reader object, over all its sessions
MaxMsgs == 3
\* scope entries (with-blocks) on one reader object
MaxSessions == 2
\* LSNs range over 0..MaxLsn
MaxLsn == 1
\* queries run through one SourceDBHandler
MaxQueries == 3
\* change events of one transaction, at object level
MaxEvents == 2
\* handler invocations on the bundled consumers in one session
MaxHandlerCalls == 4

\* ------------------------------------------------------------------ values
RelIds == {1, 2}
Lsns == 0 .. MaxLsn
NoLsn == -1

\* Python None for self.transaction_metadata / a Transaction
NoTx == [kind |-> "None", op |-> "none", tx_id |-> 0]
\* Python None
None == [kind |-> "None"]
NoMsg == [tag |-> "none", relation_id |-> 0, relation_ids |-> <<>>]
NoCall == [h |-> "none", arg |-> None, n |-> 0, cb |-> NoLsn]
\* The block has not called consume_stream.
NoConsume == [called |-> FALSE, given |-> FALSE, n |-> 0, outside |-> "uncalled"]
NoEntry == [found_missing |-> FALSE, created |-> FALSE, fault |-> "none",
            opened |-> FALSE, steps |-> <<>>]

\* The reader's slot_name, publication_name, dsn and lsn (the default, 0), and
\* the row the server returns for CREATE_REPLICATION_SLOT: slot name,
\* consistent point, snapshot name and output plugin.
SlotName == "slot"
PublicationName == "pub"
Dsn == "dsn"
StartLsn == 0
SlotRow(slot_name, output_plugin) == <<slot_name, MaxLsn, "snapshot", output_plugin>>

\* The wire messages by first payload byte: the tags of pgoutput v1, and X for
\* a byte that is none of them.  R, I, U and D name one relation, T a list of
\* relations.
WireMessages ==
    [tag : {"B", "C", "O", "X"}, relation_id : {0}, relation_ids : {<<>>}]
    \cup [tag : {"R", "I", "U", "D"}, relation_id : RelIds, relation_ids : {<<>>}]
    \cup [tag : {"T"}, relation_id : {0}, relation_ids : {<<1>>, <<1, 2>>}]

\* What a consumer handler does when invoked: return, raise the Stop signal
\* (StopIteration), or raise any other exception.
HandlerOutcomes == {"ok", "Stop", "Error"}

\* The state store the reader was constructed with: the library's StateStore,
\* or a consumer's own class with the same handlers.
StateStores == {"StateStore", "custom"}

\* The ways the block calls consume_stream: consume_stream(), or
\* consume_stream(max_count=n).
ConsumeArgs ==
    {[given |-> FALSE, n |-> 0]} \cup [given : {TRUE}, n : 1 .. MaxMsgs]

\* Where a scope entry can fail.
EnterFaults == {"none", "connect", "start", "commit", "create", "handler", "restart"}

\* ---------------------------------------------- values at column level
\* Type names are sequences of characters, as format_type returns them.
bigint == <<"b", "i", "g", "i", "n", "t">>
integer == <<"i", "n", "t", "e", "g", "e", "r">>
smallint == <<"s", "m", "a", "l", "l", "i", "n", "t">>
timestamp_with_time_zone ==
    <<"t", "i", "m", "e", "s", "t", "a", "m", "p", " ", "w", "i", "t", "h", " ", "t", "i", "m", "e", " ", "z", "o", "n", "e">>
timestamp_without_time_zone ==
    <<"t", "i", "m", "e", "s", "t", "a", "m", "p", " ", "w", "i", "t", "h", "o", "u", "t", " ", "t", "i", "m", "e", " ", "z", "o", "n", "e">>
json == <<"j", "s", "o", "n">>
jsonb == <<"j", "s", "o", "n", "b">>
numeric == <<"n", "u", "m", "e", "r", "i", "c">>

\* The type names the source database answers with: the names of the mapping,
\* numeric with a modifier, and names that are none of them.
TypeNames ==
    {bigint, integer, smallint, timestamp_with_time_zone,
     timestamp_without_time_zone, json, jsonb, numeric,
     <<"n", "u", "m", "e", "r", "i", "c", "(", "1", "0", ",", "2", ")">>,
     <<"n", "u", "m", "e", "r", "i">>,
     <<"t", "e", "x", "t">>}

\* The type names of the relations rows are processed against: one with a
\* converter that parses, one that stays a string.
RowTypeNames == {integer, <<"t", "e", "x", "t">>}

\* Type OIDs of Relation columns.
TypeIds == {23, 1700}

\* The type modifiers of the columns: none, and the one of numeric(10,2).
AttTypMods == {-1, 655366}

\* Column names by position; the second is also the name of a virtual key
\* field.
ColNames == <<"id", "table">>
Namespace == "public"
Table == "integration"
Database == "unittest"

\* The relation the column-level messages name.
RelId == 1

\* MetadataStore(): four empty dicts.
EmptyStore == [pg_types |-> <<>>, table_schemas |-> <<>>, table_models |-> <<>>,
               key_models |-> <<>>]

\* SourceDBHandler(dsn): connected, no query run yet.  conn is the state of
\* self.conn: "open", "lost" (the server end is gone) or "closed".
SourceDBHandler ==
    [conn |-> "open", queries |-> 0, rollbacks |-> 0, open_cursors |-> 0]

\* The Transaction objects of a session that has seen no message.  heap holds
\* the objects by identity (an object's reference is its index, 0 is None);
\* context is self.transaction_metadata; begun is the reference and the value
\* handed to handle_begin; events are the references in event.transaction of
\* the change events emitted for the transaction; committed is the reference
\* handed to handle_commit and seen the context that handler met; ended tells
\* that an exception has ended the stream.
NoTransactions ==
    [heap |-> <<>>, context |-> 0, begun |-> [ref |-> 0, value |-> NoTx],
     events |-> <<>>, committed |-> 0, seen |-> 0, ended |-> FALSE]

\* No message processed yet.
NoOp == [op |-> "none", msg |-> None, res |-> [ret |-> None, err |-> "none"],
         queries |-> 0]

\* StateStore(): txn_id, txn_ts and txn_lsn are None.  None is the empty
\* sequence, a value the sequence of it.
StateStore == [txn_id |-> <<>>, txn_ts |-> <<>>, txn_lsn |-> <<>>]

\* DataStore(): as StateStore, and commit_callback is None.
DataStore == [txn_id |-> <<>>, txn_ts |-> <<>>, txn_lsn |-> <<>>, commit_callback |-> "None"]

\* The consumers a reader is constructed with: ChangeStore and StateStore
\* ("stores"), or one DataStore for both ("DataStore").  No session is
\* running: nothing was sent, no transaction is open, no handler was invoked.
Consumers(bundle) ==
    [bundle |-> bundle, state_store |-> StateStore, data_store |-> DataStore,
     flush_lsn |-> NoLsn, sent |-> <<>>, invoked |-> <<>>, open |-> <<>>,
     last |-> [h |-> "none", data_start |-> NoLsn, err |-> "none"], n |-> 0]

VARIABLES
    state,                 \* "idle", "streaming", "raising", "closed", "entry_failed"
    connection,            \* self.connection: "none", "open", "closed"
    cursor,                \* self.cursor: "none", "open", "closed"
    slot,                  \* the server has the replication slot
    transaction_metadata,  \* self.transaction_metadata
    table_schemas,         \* MetadataStore.table_schemas, relation id -> TableSchema
    flush_lsn,             \* the session's highest flushed LSN
    feedback,              \* flush LSNs sent to the server in this session, in order
    handler_flushes,       \* flush feedbacks a handler sent through msg.cursor in this
                           \* session (StateStore.handle_commit)
    calls,                 \* consumer handlers invoked in this session, in order
    relations_handled,     \* relation ids handle_relation was invoked for, over all
                           \* sessions
    delivered,             \* the latest handler invocation: the handler, its argument,
                           \* the number of the wire message it was invoked for and
                           \* the LSN it passed to commit_callback (NoLsn: no call)
    last_msg,              \* the latest wire message handed to __call__
    err,                   \* the exception caught by __call__'s except clause
    raised,                \* the exception leaving the scoped block
    closes,                \* resources closed by __exit__, in order
    entry,                 \* what the latest __enter__ met
    slot_created_calls,    \* handle_slot_created invocations of the latest entry
    slot_created_total,    \* handle_slot_created invocations over all sessions
    consume,               \* the block's call of consume_stream: whether it was made
                           \* and the max_count it passed
    sessions,              \* scope entries so far
    msgs,                  \* wire messages dispatched so far
    tx_seq,                \* Begin messages seen so far (the next xid is tx_seq + 1)
    metadata_store,        \* the MetadataStore at column level: type names, schemas
                           \* and the two row validators of each relation
    processed,             \* the latest message processed at column level: the
                           \* message (of a Relation message the relation id), what
                           \* its processor returned or raised, and the source
                           \* metadata queries it made
    source_db_handler,     \* self.source_db_handler: its connection, the queries and
                           \* rollbacks it has run and the cursors it holds open
    transactions,          \* the Transaction objects of the session by identity, and
                           \* the references the context, the handlers and the
                           \* emitted events hold
    consumers              \* the bundled consumers the reader was given, the
                           \* feedback they have sent and the commit_callback
                           \* invocations they have made

reader_vars == <<state, connection, cursor, slot, transaction_metadata, table_schemas,
          flush_lsn, feedback, handler_flushes, calls, relations_handled, delivered, last_msg, err, raised, closes,
          entry, slot_created_calls, slot_created_total, consume, sessions, msgs,
          tx_seq>>

session_vars == <<reader_vars, source_db_handler, transactions, consumers>>

vars == <<session_vars, metadata_store, processed>>

\* ------------------------------------------------------------ the catalog
\* MetadataStore.table_schema: dict.get, None when the key is absent.
table_schema(schemas, relid) ==
    IF relid \in DOMAIN schemas THEN schemas[relid] ELSE None

\* MetadataStore.add_table_schema
add_table_schema(schemas, relid, schema) ==
    [r \in DOMAIN schemas \cup {relid} |-> IF r = relid THEN schema ELSE schemas[r]]

TableSchema(relid) == [kind |-> "TableSchema", relation_id |-> relid]

\* --------------------------------------------------- message processors
\* Every processor returns [ret, err]: the value returned, or the exception
\* raised (err # "none").
Ok(v) == [ret |-> v, err |-> "none"]
Raise(e) == [ret |-> None, err |-> e]

\* process_relation: the cached schema when there is one; otherwise the source
\* metadata queries (which fail with QueryError when query_ok is FALSE) and the
\* new schema.  The second component is the catalog afterwards.
process_relation(msg, schemas, query_ok) ==
    LET schema == table_schema(schemas, msg.relation_id)
    IN  IF schema # None THEN [res |-> Ok(schema), schemas |-> schemas]
        ELSE IF ~query_ok THEN [res |-> Raise("QueryError"), schemas |-> schemas]
        ELSE [res |-> Ok(TableSchema(msg.relation_id)),
              schemas |-> add_table_schema(schemas, msg.relation_id,
                                           TableSchema(msg.relation_id))]

\* process_begin
process_begin(msg, xid) == [kind |-> "Transaction", op |-> "B", tx_id |-> xid]

\* A ChangeEvent whose fields are not validated.
ChangeEvent_unvalidated(op, transaction, schema, schemata) ==
    Ok([kind |-> "ChangeEvent", op |-> op, transaction |-> transaction,
        table_schema |-> schema, table_schemata |-> schemata,
        before |-> None, after |-> None])

\* ChangeEvent(...): pydantic validation of the required fields transaction and
\* table_schema (None is not allowed for either).
ChangeEvent(op, transaction, schema, schemata) ==
    IF transaction = NoTx \/ schema = None THEN Raise("ValidationError")
    ELSE Ok([kind |-> "ChangeEvent", op |-> op, transaction |-> transaction,
             table_schema |-> schema, table_schemata |-> schemata,
             before |-> None, after |-> None])

\* A row processor that builds the schema from the message instead of taking
\* it from the catalog.
process_row_unchecked(msg, transaction, schemas, row_ok) ==
    IF ~row_ok THEN Raise("ValidationError")
    ELSE ChangeEvent(msg.tag, transaction, TableSchema(msg.relation_id), <<>>)

\* process_insert, process_update, process_delete: the schema lookup, then
\* map_tuple_to_dict (relation.column_definitions of None is an
\* AttributeError), then the row validators (row_ok: the tuples validate),
\* then ChangeEvent.
process_row(msg, transaction, schemas, row_ok) ==
    LET schema == table_schema(schemas, msg.relation_id)
    IN  IF schema = None THEN Raise("AttributeError")
        ELSE IF ~row_ok THEN Raise("ValidationError")
        ELSE ChangeEvent(msg.tag, transaction, schema, <<>>)

\* process_truncate has a yield in its body: calling it returns a generator
\* object and runs none of the body.
process_truncate(msg, transaction, schemas) ==
    Ok([kind |-> "generator"])

\* transform_raw: [res, transaction_metadata, schemas] after the message.
transform_raw(msg, tm, schemas, xid, query_ok, row_ok) ==
    CASE msg.tag = "R" ->
            LET p == process_relation(msg, schemas, query_ok)
            IN  [res |-> p.res, transaction_metadata |-> tm, schemas |-> p.schemas]
      [] msg.tag = "B" ->
            [res |-> Ok(process_begin(msg, xid)),
             transaction_metadata |-> process_begin(msg, xid), schemas |-> schemas]
      [] msg.tag \in {"I", "U", "D"} ->
            [res |-> process_row(msg, tm, schemas, row_ok),
             transaction_metadata |-> tm, schemas |-> schemas]
      [] msg.tag = "T" ->
            [res |-> process_truncate(msg, tm, schemas),
             transaction_metadata |-> tm, schemas |-> schemas]
      [] msg.tag = "C" ->
            IF tm = NoTx
            THEN [res |-> Raise("AttributeError"),
                  transaction_metadata |-> tm, schemas |-> schemas]
            ELSE [res |-> Ok([tm EXCEPT !.op = "C"]),
                  transaction_metadata |-> NoTx, schemas |-> schemas]
      [] OTHER ->
            [res |-> Ok(None), transaction_metadata |-> tm, schemas |-> schemas]

\* A dispatch that hands every Transaction to handle_begin.
handler_for_begin_only(ret) ==
    IF ret.kind = "TableSchema" THEN "handle_relation"
    ELSE IF ret.kind \notin {"Transaction", "ChangeEvent"} THEN "none"
    ELSE IF ret.kind = "Transaction" THEN "handle_begin"
    ELSE "handle_change_event"

\* The handler __call__ picks for the value transform_raw returned; "none" when
\* the value has no attribute op (AttributeError).
handler_for(ret) ==
    IF ret.kind = "TableSchema" THEN "handle_relation"
    ELSE IF ret.kind \notin {"Transaction", "ChangeEvent"} THEN "none"
    ELSE IF ret.op = "B" THEN "handle_begin"
    ELSE IF ret.op = "C" THEN "handle_commit"
    ELSE "handle_change_event"

\* The transaction a handler invocation belongs to: the xid of the Transaction
\* handed to handle_begin and handle_commit, event.transaction of a ChangeEvent.
tx_of(ret) ==
    IF ret.kind = "Transaction" THEN ret.tx_id
    ELSE IF ret.kind = "ChangeEvent" THEN ret.transaction.tx_id
    ELSE 0

\* The except clause of __call__: every exception leaves as StopIteration.
reraise(e) == IF e = "none" THEN "none" ELSE "StopIteration"

\* A commit_callback that forwards every LSN it is given.
commit_callback_unguarded(lsn, flush) ==
    [flush_lsn |-> lsn, send |-> <<lsn>>]

\* commit_callback(lsn) of the session: [flush_lsn, send], the highest flushed
\* LSN afterwards and the flush feedback sent.
commit_callback(lsn, flush) ==
    IF flush = NoLsn \/ lsn >= flush
    THEN [flush_lsn |-> lsn, send |-> <<lsn>>]
    ELSE [flush_lsn |-> flush, send |-> <<>>]

\* StateStore.handle_commit: msg.cursor.send_feedback(flush_lsn=msg.data_start),
\* one flush feedback for the Commit message it was invoked for.  The number of
\* flush feedbacks handler h of the state store sends through msg.cursor.
handle_commit_flushes(store, h) ==
    IF store = "StateStore" /\ h = "handle_commit" THEN 1 ELSE 0

\* consume_stream(self): the exception of the call, "none" when the stream
\* starts.  The method has no parameter besides self, so a call with
\* max_count is a TypeError; without a cursor it raises RuntimeError.
consume_stream(cur, arg) ==
    IF arg.given THEN "TypeError"
    ELSE IF cur = "none" THEN "RuntimeError"
    ELSE "none"

\* self.cursor.consume_stream(self) of the driver: the exception of the call,
\* "none" when it enters the consume loop.  A closed cursor refuses every
\* call, a cursor on which no replication was started refuses this one.
cursor_consume_stream(cur, replicating) ==
    IF cur = "closed" THEN "InterfaceError"
    ELSE IF ~replicating THEN "ProgrammingError"
    ELSE "none"

\* -------------------------------------------------------------- __enter__
\* The faults a scope entry can meet, given whether the slot exists.
ApplicableFaults(slot_exists) ==
    IF slot_exists THEN {"none", "connect", "start"} ELSE EnterFaults

\* cursor.start_replication(slot_name=self.slot_name,
\* options=replication_options, start_lsn=self.lsn, decode=False)
start_replication(slot_name, options, start_lsn) ==
    [cmd |-> "START_REPLICATION", slot_name |-> slot_name, options |-> options,
     start_lsn |-> start_lsn, decode |-> FALSE]

\* SlotInitInfo(...) of the row CREATE_REPLICATION_SLOT returned.
SlotInitInfo(res) ==
    [dsn |-> Dsn, publication_name |-> PublicationName, slot_name |-> res[1],
     flush_lsn |-> res[2], snapshot |-> res[3], plugin |-> res[4]]

\* The steps of an entry that restarts replication from the consistent point
\* of the slot it created, before it tells the consumer.
enter_steps_restart_first(slot_exists, fault) ==
    LET options == [publication_names |-> PublicationName, proto_version |-> "1"]
        res == SlotRow(SlotName, "pgoutput")
        start == start_replication(SlotName, options, StartLsn)
        all == <<[cmd |-> "LogicalReplicationConnection"],
                 [cmd |-> "ReplicationCursor"],
                 start,
                 [cmd |-> "commit;"],
                 [cmd |-> "CREATE_REPLICATION_SLOT", slot_name |-> SlotName,
                  output_plugin |-> "pgoutput"],
                 start_replication(SlotName, options, res[2]),
                 [cmd |-> "handle_slot_created", info |-> SlotInitInfo(res)]>>
        last == CASE fault = "connect" -> 1
                  [] fault = "start" -> 3
                  [] fault = "commit" -> 4
                  [] fault = "create" -> 5
                  [] fault = "handler" -> 7
                  [] fault = "restart" -> 6
                  [] OTHER -> IF slot_exists THEN 3 ELSE 7
    IN  SubSeq(all, 1, last)

\* The steps __enter__ takes, in order, up to its return or up to the step
\* that fails: the connection, the cursor, START_REPLICATION; and when that
\* raised UndefinedObject the statement commit; (it ends the aborted
\* transaction), CREATE_REPLICATION_SLOT, handle_slot_created with the
\* SlotInitInfo of the returned row, and START_REPLICATION again.
enter_steps(slot_exists, fault) ==
    LET options == [publication_names |-> PublicationName, proto_version |-> "1"]
        res == SlotRow(SlotName, "pgoutput")
        start == start_replication(SlotName, options, StartLsn)
        all == <<[cmd |-> "LogicalReplicationConnection"],
                 [cmd |-> "ReplicationCursor"],
                 start,
                 [cmd |-> "commit;"],
                 [cmd |-> "CREATE_REPLICATION_SLOT", slot_name |-> SlotName,
                  output_plugin |-> "pgoutput"],
                 [cmd |-> "handle_slot_created", info |-> SlotInitInfo(res)],
                 start>>
        last == CASE fault = "connect" -> 1
                  [] fault = "start" -> 3
                  [] fault = "commit" -> 4
                  [] fault = "create" -> 5
                  [] fault = "handler" -> 6
                  [] fault = "restart" -> 7
                  [] OTHER -> IF slot_exists THEN 3 ELSE 7
    IN  SubSeq(all, 1, last)

\* An entry that reports a slot creation whether or not it created the slot.
enter_always_notifies(slot_exists, fault) ==
    LET missing == fault # "connect" /\ fault # "start" /\ ~slot_exists
        created == missing /\ fault \notin {"commit", "create"}
    IN  [opened |-> fault # "connect",
         found_missing |-> missing,
         created |-> created,
         notified |-> fault \notin {"connect", "start", "commit", "create"},
         raised |-> IF fault = "none" THEN "none"
                    ELSE IF fault = "handler" THEN "Error"
                    ELSE "OperationalError"]

\* __enter__: what the entry does up to the fault (or to its return).
\*   opened         the connection and the cursor were created
\*   found_missing  the first START_REPLICATION raised UndefinedObject
\*   created        CREATE_REPLICATION_SLOT succeeded
\*   notified       handle_slot_created was invoked
\*   raised         the exception leaving __enter__
enter(slot_exists, fault) ==
    LET missing == fault # "connect" /\ fault # "start" /\ ~slot_exists
        created == missing /\ fault \notin {"commit", "create"}
    IN  [opened |-> fault # "connect",
         found_missing |-> missing,
         created |-> created,
         notified |-> created,
         raised |-> IF fault = "none" THEN "none"
                    ELSE IF fault = "handler" THEN "Error"
                    ELSE "OperationalError"]

\* An exit that closes the connection before the cursor.
exit_closes_connection_first(cur, conn) ==
    (IF conn # "none" THEN <<"connection">> ELSE <<>>)
    \o (IF cur # "none" THEN <<"cursor">> ELSE <<>>)

\* __exit__: the resources it closes, in order.
exit_closes(cur, conn) ==
    (IF cur # "none" THEN <<"cursor">> ELSE <<>>)
    \o (IF conn # "none" THEN <<"connection">> ELSE <<>>)

\* close() of a cursor or a connection that __exit__ closed.
closed_by(closed, name, resource) ==
    IF \E i \in 1 .. Len(closed) : closed[i] = name THEN "closed" ELSE resource

\* __exit__ returns None: the exception of the block is not suppressed.
exit_suppresses(exc) == FALSE

\* ------------------------------------------------------------------ actions
SessionInit ==
    /\ state = "idle"
    /\ connection = "none"
    /\ cursor = "none"
    /\ slot \in BOOLEAN
    /\ transaction_metadata = NoTx
    /\ table_schemas = <<>>
    /\ flush_lsn = NoLsn
    /\ feedback = <<>>
    /\ handler_flushes = 0
    /\ calls = <<>>
    /\ relations_handled = {}
    /\ delivered = NoCall
    /\ last_msg = NoMsg
    /\ err = "none"
    /\ raised = "none"
    /\ closes = <<>>
    /\ entry = NoEntry
    /\ slot_created_calls = 0
    /\ slot_created_total = 0
    /\ consume = NoConsume
    /\ sessions = 0
    /\ msgs = 0
    /\ tx_seq = 0
    /\ source_db_handler = SourceDBHandler
    /\ transactions = NoTransactions
    /\ consumers = Consumers("stores")

Init ==
    /\ SessionInit
    /\ metadata_store = EmptyStore
    /\ processed = NoOp

\* with reader: ... (scope entry)
Enter ==
    /\ state \in {"idle", "closed", "entry_failed"}
    /\ sessions < MaxSessions
    /\ \E fault \in ApplicableFaults(slot) :
         LET e == enter(slot, fault)
         IN  /\ state' = IF e.raised = "none" THEN "streaming" ELSE "entry_failed"
             /\ connection' = IF e.opened THEN "open" ELSE connection
             /\ cursor' = IF e.opened THEN "open" ELSE cursor
             /\ slot' = (slot \/ e.created)
             /\ raised' = e.raised
             /\ entry' = [found_missing |-> e.found_missing, created |-> e.created,
                          fault |-> fault, opened |-> e.opened,
                          steps |-> enter_steps(slot, fault)]
             /\ slot_created_calls' = IF e.notified THEN 1 ELSE 0
             /\ slot_created_total' = slot_created_total + (IF e.notified THEN 1 ELSE 0)
    /\ sessions' = sessions + 1
    /\ consume' = NoConsume
    /\ flush_lsn' = NoLsn
    /\ feedback' = <<>>
    /\ handler_flushes' = 0
    /\ calls' = <<>>
    /\ delivered' = NoCall
    /\ last_msg' = NoMsg
    /\ err' = "none"
    /\ closes' = <<>>
    /\ UNCHANGED <<transaction_metadata, table_schemas, relations_handled, msgs,
                   tx_seq, metadata_store, processed,
                   source_db_handler, transactions, consumers>>

\* The body of the block calls reader.consume_stream.  When the call is
\* accepted cursor.consume_stream(self) runs: it dispatches messages to
\* __call__ until an exception ends it.
ConsumeStream ==
    /\ state = "streaming"
    /\ ~consume.called
    /\ \E arg \in ConsumeArgs :
         LET e == consume_stream(cursor, arg)
         IN  /\ consume' = [called |-> TRUE, given |-> arg.given, n |-> arg.n,
                            outside |-> "uncalled"]
             /\ raised' = e
             /\ state' = IF e = "none" THEN "streaming" ELSE "raising"
    /\ UNCHANGED <<connection, cursor, slot, transaction_metadata, table_schemas,
                   flush_lsn, feedback, handler_flushes, calls, relations_handled,
                   delivered, last_msg, err, closes, entry, slot_created_calls,
                   slot_created_total, sessions, msgs, tx_seq, metadata_store,
                   processed, source_db_handler, transactions, consumers>>

\* reader.consume_stream() called while no block is active: before the first
\* entry, after a block was left, or after an entry failed.  No replication
\* is running on the cursor then, whatever the cursor is.
ConsumeStreamOutside ==
    /\ state \in {"idle", "closed", "entry_failed"}
    /\ consume.outside = "uncalled"
    /\ LET e == consume_stream(cursor, [given |-> FALSE, n |-> 0])
       IN  consume' = [consume EXCEPT !.outside =
                          IF e = "none" THEN cursor_consume_stream(cursor, FALSE)
                          ELSE e]
    /\ UNCHANGED <<state, raised, connection, cursor, slot, transaction_metadata,
                   table_schemas, flush_lsn, feedback, handler_flushes, calls,
                   relations_handled, delivered, last_msg, err, closes, entry,
                   slot_created_calls, slot_created_total, sessions, msgs, tx_seq,
                   metadata_store, processed, source_db_handler, transactions, consumers>>

\* __call__(msg): one wire message delivered by cursor.consume_stream.  The
\* consumer handler it invokes returns or raises (outcome) and may first pass
\* an LSN to commit_callback (cb).  An exception of __call__ ends
\* cursor.consume_stream, which lets it through to the body of the block.
Call ==
    /\ state = "streaming"
    /\ consume.called
    /\ msgs < MaxMsgs
    /\ \E msg \in WireMessages, query_ok \in BOOLEAN, row_ok \in BOOLEAN,
          outcome \in HandlerOutcomes, cb \in {NoLsn} \cup Lsns,
          store \in StateStores :
         LET t == transform_raw(msg, transaction_metadata, table_schemas,
                                tx_seq + 1, query_ok, row_ok)
             h == IF t.res.err = "none" THEN handler_for(t.res.ret) ELSE "none"
             e == IF t.res.err # "none" THEN t.res.err
                  ELSE IF h = "none" THEN "AttributeError"
                  ELSE IF outcome = "ok" THEN "none"
                  ELSE outcome
             c == IF h # "none" /\ cb # NoLsn
                  THEN commit_callback(cb, flush_lsn)
                  ELSE [flush_lsn |-> flush_lsn, send |-> <<>>]
         IN  /\ (msg.tag # "R" => query_ok)
             /\ (msg.tag \notin {"I", "U", "D"} => row_ok)
             /\ (h = "none" => outcome = "ok" /\ cb = NoLsn)
             /\ (h # "handle_commit" => store = "custom")
             /\ handler_flushes' = handler_flushes + handle_commit_flushes(store, h)
             /\ last_msg' = msg
             /\ transaction_metadata' = t.transaction_metadata
             /\ table_schemas' = t.schemas
             /\ tx_seq' = IF msg.tag = "B" THEN tx_seq + 1 ELSE tx_seq
             /\ calls' = IF h = "none" THEN calls
                         ELSE Append(calls, [h |-> h, tx |-> tx_of(t.res.ret)])
             /\ relations_handled' = IF h = "handle_relation"
                                     THEN relations_handled \cup {t.res.ret.relation_id}
                                     ELSE relations_handled
             /\ delivered' = IF h = "none" THEN delivered
                             ELSE [h |-> h, arg |-> t.res.ret, n |-> msgs + 1,
                                   cb |-> cb]
             /\ flush_lsn' = c.flush_lsn
             /\ feedback' = feedback \o c.send
             /\ err' = e
             /\ raised' = reraise(e)
             /\ state' = IF e = "none" THEN "streaming" ELSE "raising"
    /\ msgs' = msgs + 1
    /\ UNCHANGED <<connection, cursor, slot, closes, entry, slot_created_calls,
                   slot_created_total, consume, sessions, metadata_store, processed,
                   source_db_handler, transactions, consumers>>

\* An exception of the replication cursor itself (the transport), raised by
\* cursor.consume_stream outside __call__.
TransportError ==
    /\ state = "streaming"
    /\ consume.called
    /\ raised' = "OperationalError"
    /\ state' = "raising"
    /\ UNCHANGED <<connection, cursor, slot, transaction_metadata, table_schemas,
                   flush_lsn, feedback, handler_flushes, calls, relations_handled, delivered, last_msg,
                   err, closes,
                   entry, slot_created_calls, slot_created_total, consume, sessions,
                   msgs, tx_seq, metadata_store, processed,
                   source_db_handler, transactions, consumers>>

\* __exit__: the block was left, normally or by an exception.
Exit ==
    /\ state \in {"streaming", "raising"}
    /\ closes' = exit_closes(cursor, connection)
    /\ cursor' = closed_by(closes', "cursor", cursor)
    /\ connection' = closed_by(closes', "connection", connection)
    /\ raised' = IF exit_suppresses(raised) THEN "none" ELSE raised
    /\ state' = "closed"
    /\ UNCHANGED <<slot, transaction_metadata, table_schemas, flush_lsn, feedback,
                   handler_flushes, calls, relations_handled, delivered, last_msg, err, entry, slot_created_calls,
                   slot_created_total, consume, sessions, msgs, tx_seq,
                   metadata_store, processed,
                   source_db_handler, transactions, consumers>>

Next == Enter \/ ConsumeStream \/ ConsumeStreamOutside \/ Call \/ TransportError \/ Exit

Spec == Init /\ [][Next]_vars

\* ------------------------------------------------- the catalog at column level
\* pg_type_name[:7]: the first n characters, the whole of a shorter string.
Slice(str, n) == SubSeq(str, 1, IF Len(str) < n THEN Len(str) ELSE n)

\* A mapping that takes only the exact name numeric for a numeric type.
convert_exact_names_only(pg_type_name) ==
    IF pg_type_name \in {bigint, integer, smallint} THEN "int"
    ELSE IF pg_type_name \in {timestamp_with_time_zone, timestamp_without_time_zone}
         THEN "datetime"
    ELSE IF pg_type_name \in {json, jsonb} THEN "Json"
    ELSE IF pg_type_name = numeric THEN "float"
    ELSE "str"

\* convert_pg_type_to_py_type: the Python type a column is validated as.
convert_pg_type_to_py_type(pg_type_name) ==
    IF pg_type_name \in {bigint, integer, smallint} THEN "int"
    ELSE IF pg_type_name \in {timestamp_with_time_zone, timestamp_without_time_zone}
         THEN "datetime"
    ELSE IF pg_type_name \in {json, jsonb} THEN "Json"
    ELSE IF Slice(pg_type_name, 7) = numeric THEN "float"
    ELSE "str"

\* decoders.Relation: the Relation messages for RelId, with a prefix of
\* ColNames as columns.
RelationMessages ==
    UNION {[relation_id : {RelId}, namespace : {Namespace}, relation_name : {Table},
            columns : {cols \in [1 .. n -> [name : {ColNames[i] : i \in 1 .. Len(ColNames)},
                                           part_of_pkey : BOOLEAN,
                                           type_id : TypeIds,
                                           atttypmod : AttTypMods]] :
                          \A i \in 1 .. n : cols[i].name = ColNames[i]}]
           : n \in 0 .. Len(ColNames)}

\* The Relation messages whose columns have no type modifier.
PlainRelationMessages ==
    {m \in RelationMessages : \A i \in 1 .. Len(m.columns) : m.columns[i].atttypmod = -1}

\* The type OIDs of the columns that the store has no type name for: the
\* ones process_relation asks the source database about.
unknown_type_ids(columns, pg_types) ==
    {columns[i].type_id : i \in 1 .. Len(columns)} \ DOMAIN pg_types

\* The (type OID, type modifier) pairs of the columns whose type OID the
\* store has no type name for.
unknown_types(columns, pg_types) ==
    {<<columns[i].type_id, columns[i].atttypmod>> :
        i \in {j \in 1 .. Len(columns) : columns[j].type_id \notin DOMAIN pg_types}}

\* What the source database answers while one Relation message is processed:
\* format_type(type_id, atttypmod) for each pair of a type OID the store does
\* not know, and the negation of attnotnull for each column.
SourceAnswers(columns, pg_types, names) ==
    [types : [unknown_types(columns, pg_types) -> names],
     optional : [1 .. Len(columns) -> BOOLEAN]]

\* The source's format_type for each column's own pair, None for a column
\* whose type OID the store knew before the message.
format_types(columns, src) ==
    [i \in 1 .. Len(columns) |->
        IF <<columns[i].type_id, columns[i].atttypmod>> \in DOMAIN src.types
        THEN src.types[<<columns[i].type_id, columns[i].atttypmod>>]
        ELSE None]

\* The source queries process_relation makes for these columns.
SourceQueries(columns, pg_types) ==
    Cardinality(unknown_type_ids(columns, pg_types)) + Len(columns)

\* dict[key] = value
put(dict, key, value) ==
    [k \in DOMAIN dict \cup {key} |-> IF k = key THEN value ELSE dict[k]]

\* The loop of process_relation over relation_msg.columns.  defs are the
\* column definitions built so far, q the source queries made so far; the
\* source query number fail_at fails (0: none does).  A type name is asked of
\* the source only when the store has none for the type OID, and is stored at
\* once; nullability is asked for every column.
RECURSIVE column_definitions(_, _, _, _, _, _)
column_definitions(columns, src, fail_at, pg_types, defs, q) ==
    IF Len(defs) = Len(columns)
    THEN [err |-> "none", pg_types |-> pg_types, defs |-> defs, queries |-> q]
    ELSE LET i == Len(defs) + 1
             column == columns[i]
             cached == column.type_id \in DOMAIN pg_types
             q1 == IF cached THEN q ELSE q + 1
             types1 == IF cached THEN pg_types
                       ELSE put(pg_types, column.type_id,
                                src.types[<<column.type_id, column.atttypmod>>])
             q2 == q1 + 1
         IN  IF ~cached /\ fail_at = q1
             THEN [err |-> "QueryError", pg_types |-> pg_types, defs |-> defs,
                   queries |-> q1]
             ELSE IF fail_at = q2
             THEN [err |-> "QueryError", pg_types |-> types1, defs |-> defs,
                   queries |-> q2]
             ELSE column_definitions(
                      columns, src, fail_at, types1,
                      Append(defs, [name |-> column.name,
                                    part_of_pkey |-> column.part_of_pkey,
                                    type_id |-> column.type_id,
                                    type_name |-> types1[column.type_id],
                                    optional |-> src.optional[i]]),
                      q2)

\* pydantic.create_model over the given column definitions: the fields of the
\* validator in order, each with its converter and whether it is required.
create_model(defs) ==
    [kind |-> "model",
     fields |-> [i \in 1 .. Len(defs) |->
                    [name |-> defs[i].name,
                     conv |-> convert_pg_type_to_py_type(defs[i].type_name),
                     required |-> ~defs[i].optional]]]

\* A key-only validator over all the columns.
key_definitions_all(defs) == defs

\* The column definitions that are part of the primary key, in order.
key_definitions(defs) == SelectSeq(defs, LAMBDA c : c.part_of_pkey)

\* process_relation below its check of the store: it resolves the columns
\* and adds the full-row validator, the key-only validator and the schema.
\* [res, store, queries].
resolve_relation(msg, store, src, fail_at) ==
    LET r == column_definitions(msg.columns, src, fail_at, store.pg_types, <<>>, 0)
        new == [kind |-> "TableSchema", db |-> Database, namespace |-> msg.namespace,
                table |-> msg.relation_name, column_definitions |-> r.defs,
                relation_id |-> msg.relation_id]
    IN  IF r.err # "none"
        THEN [res |-> Raise(r.err), store |-> [store EXCEPT !.pg_types = r.pg_types],
              queries |-> r.queries]
        ELSE [res |-> Ok(new),
              store |-> [pg_types |-> r.pg_types,
                         table_schemas |->
                             add_table_schema(store.table_schemas, msg.relation_id, new),
                         table_models |->
                             put(store.table_models, msg.relation_id,
                                 create_model(r.defs)),
                         key_models |->
                             put(store.key_models, msg.relation_id,
                                 create_model(key_definitions(r.defs)))],
              queries |-> r.queries]

\* A process_relation that resolves the columns again for a relation the store
\* has.
upsert_relation_refreshing(msg, store, src, fail_at) ==
    resolve_relation(msg, store, src, fail_at)

\* process_relation with the columns of the message: with a schema in the
\* store it returns that schema, otherwise it resolves the relation.
upsert_relation(msg, store, src, fail_at) ==
    LET schema == table_schema(store.table_schemas, msg.relation_id)
    IN  IF schema # None
        THEN [res |-> Ok(schema), store |-> store, queries |-> 0]
        ELSE resolve_relation(msg, store, src, fail_at)

\* The answers of a source database that is not asked.
NotAsked(columns) == [types |-> <<>>, optional |-> [i \in 1 .. Len(columns) |-> FALSE]]

CatalogInit ==
    /\ SessionInit
    /\ slot
    /\ metadata_store = EmptyStore
    /\ processed = NoOp

\* A Relation message is processed: process_relation, with the answers of the
\* source database for its columns and the query that fails, if any.
Relation ==
    \E msg \in PlainRelationMessages :
      LET hit == msg.relation_id \in DOMAIN metadata_store.table_schemas
      IN
      \E src \in SourceAnswers(msg.columns, metadata_store.pg_types, TypeNames),
         fail_at \in 0 .. SourceQueries(msg.columns, metadata_store.pg_types) :
        LET r == upsert_relation(msg, metadata_store, src, fail_at)
        IN  /\ hit => (src = NotAsked(msg.columns) /\ fail_at = 0)
            /\ metadata_store' = r.store
            /\ processed' = [op |-> "R", msg |-> [relation_id |-> msg.relation_id],
                             res |-> r.res, queries |-> r.queries]
            /\ UNCHANGED session_vars

CatalogNext == Relation

CatalogSpec == CatalogInit /\ [][CatalogNext]_vars

\* ------------------------------------------- the catalog with type modifiers
\* The names format_type answers with for the OIDs 23 and 1700 and their
\* modifiers.
FormattedNames ==
    {integer, numeric, <<"n", "u", "m", "e", "r", "i", "c", "(", "1", "0", ",", "2", ")">>}

TypmodInit == CatalogInit

\* A Relation message whose columns carry type modifiers is processed:
\* process_relation, with what format_type answers for each (type OID,
\* modifier) pair of a type OID the store does not know, and the query that
\* fails, if any.
RelationWithTypmod ==
    \E msg \in RelationMessages :
      LET hit == msg.relation_id \in DOMAIN metadata_store.table_schemas
      IN
      \E src \in SourceAnswers(msg.columns, metadata_store.pg_types, FormattedNames),
         fail_at \in 0 .. SourceQueries(msg.columns, metadata_store.pg_types) :
        LET r == upsert_relation(msg, metadata_store, src, fail_at)
        IN  /\ hit => /\ src.optional = NotAsked(msg.columns).optional
                      /\ \A pair \in DOMAIN src.types : src.types[pair] = integer
                      /\ fail_at = 0
            /\ metadata_store' = r.store
            /\ processed' = [op |-> "R", msg |-> [relation_id |-> msg.relation_id],
                             res |-> r.res, queries |-> r.queries,
                             format_type |-> IF hit THEN <<>>
                                             ELSE format_types(msg.columns, src)]
            /\ UNCHANGED session_vars

TypmodNext == RelationWithTypmod

TypmodSpec == TypmodInit /\ [][TypmodNext]_vars

\* ------------------------------------------------------ rows at column level
\* Python None where a dict may be, and a dict: its keys in insertion order
\* and its values.
NoDict == [null |-> TRUE, keys |-> <<>>, val |-> <<>>]
Dict(keys, val) == [null |-> FALSE, keys |-> keys, val |-> val]

\* Python None as the value of a cell or of a field; a raw text cell; a value
\* converted by a validator.
NullValue == [conv |-> "None", raw |-> ""]
RawText(text) == [conv |-> "raw", raw |-> text]
Converted(conv, text) == [conv |-> conv, raw |-> text]

\* The cells of a TupleData: null (n), unchanged TOAST (u), or text (t).  The
\* text 1 parses as every type, the text x only as a string.
Cells == [tag : {"n", "u"}, data : {""}] \cup [tag : {"t"}, data : {"1", "x"}]

\* ColumnData.col_data: the text of a text cell; a null cell and an unchanged
\* TOAST cell carry no value (None).
col_data(cell) == IF cell.tag = "t" THEN RawText(cell.data) ELSE NullValue

\* TupleData with up to one column more than a relation can have; and the
\* attribute old_tuple of an Update without old tuple (None).
TupleData(column_data) == [none |-> FALSE, column_data |-> column_data]
NoTuple == [none |-> TRUE, column_data |-> <<>>]
TupleDatas ==
    {TupleData(cd) : cd \in UNION {[1 .. n -> Cells] : n \in 0 .. Len(ColNames) + 1}}

\* decoders.Insert, decoders.Update, decoders.Delete for RelId.
InsertMessages == [tag : {"I"}, relation_id : {RelId}, new_tuple : TupleDatas]
UpdateMessages ==
    [tag : {"U"}, relation_id : {RelId}, optional_tuple_identifier : {"K", "O"},
     old_tuple : TupleDatas, new_tuple : TupleDatas]
    \cup [tag : {"U"}, relation_id : {RelId}, optional_tuple_identifier : {"None"},
          old_tuple : {NoTuple}, new_tuple : TupleDatas]
DeleteMessages ==
    [tag : {"D"}, relation_id : {RelId}, message_type : {"K", "O"},
     old_tuple : TupleDatas]

\* map_tuple_to_dict: the column names of the relation, by position, mapped to
\* the cells' data.  A cell beyond the relation's columns is an IndexError,
\* the first cell with no relation an AttributeError.
map_tuple_to_dict(tuple_data, relation) ==
    LET cells == tuple_data.column_data
    IN  IF cells = <<>> THEN Ok(Dict(<<>>, <<>>))
        ELSE IF relation = None THEN Raise("AttributeError")
        ELSE IF Len(cells) > Len(relation.column_definitions) THEN Raise("IndexError")
        ELSE Ok(Dict([i \in 1 .. Len(cells) |-> relation.column_definitions[i].name],
                     [name \in {relation.column_definitions[i].name : i \in 1 .. Len(cells)} |->
                         col_data(cells[CHOOSE i \in 1 .. Len(cells) :
                                           relation.column_definitions[i].name = name])]))

\* Whether the converter accepts the text.
converts(conv, text) == conv = "str" \/ text = "1"

\* A field that takes None for a required column.
field_value_nullable(f, raw) ==
    LET given == IF \E i \in 1 .. Len(raw.keys) : raw.keys[i] = f.name
                 THEN raw.val[f.name] ELSE NullValue
    IN  IF given = NullValue THEN "None"
        ELSE IF converts(f.conv, given.raw) THEN "value" ELSE "invalid"

\* The value a validator gives one field from the raw mapping; "invalid" when
\* it rejects the mapping for this field: a required field that is missing or
\* None, or a text its converter does not accept.
field_value(f, raw) ==
    LET given == IF \E i \in 1 .. Len(raw.keys) : raw.keys[i] = f.name
                 THEN raw.val[f.name] ELSE NullValue
    IN  IF given = NullValue
        THEN (IF f.required THEN "invalid" ELSE "None")
        ELSE IF converts(f.conv, given.raw) THEN "value" ELSE "invalid"

\* model(**raw) of a validator made by create_model: a mapping with all the
\* fields of the validator (names of raw that are no field are ignored), or
\* ValidationError.  No validator (None) is a TypeError.
validate(model, raw) ==
    IF model = None THEN Raise("TypeError")
    ELSE IF \E i \in 1 .. Len(model.fields) :
               field_value(model.fields[i], raw) = "invalid"
    THEN Raise("ValidationError")
    ELSE Ok(Dict([i \in 1 .. Len(model.fields) |-> model.fields[i].name],
                 [name \in {model.fields[i].name : i \in 1 .. Len(model.fields)} |->
                     LET f == model.fields[CHOOSE i \in 1 .. Len(model.fields) :
                                              model.fields[i].name = name]
                     IN  IF field_value(f, raw) = "None" THEN NullValue
                         ELSE Converted(f.conv, raw.val[name].raw)]))

\* ChangeEvent(...) of a row message: transaction and table_schema are
\* required fields.
RowEvent(op, transaction, schema, before, after) ==
    IF transaction = NoTx \/ schema = None THEN Raise("ValidationError")
    ELSE Ok([kind |-> "ChangeEvent", op |-> op, transaction |-> transaction,
             table_schema |-> schema, before |-> before, after |-> after,
             key |-> NoDict])

\* map_tuple_to_dict and then the validator.
typed(tuple_data, relation, model) ==
    LET raw == map_tuple_to_dict(tuple_data, relation)
    IN  IF raw.err # "none" THEN raw ELSE validate(model, raw.ret)

\* process_insert
process_insert(msg, transaction, store) ==
    LET schema == table_schema(store.table_schemas, msg.relation_id)
        model == table_schema(store.table_models, msg.relation_id)
        after == typed(msg.new_tuple, schema, model)
    IN  IF after.err # "none" THEN after
        ELSE RowEvent("I", transaction, schema, NoDict, after.ret)

\* A process_update that takes the key-only validator for every old tuple.
process_update_key_only(msg, transaction, store) ==
    LET schema == table_schema(store.table_schemas, msg.relation_id)
        model == table_schema(store.table_models, msg.relation_id)
        key_model == table_schema(store.key_models, msg.relation_id)
        before == IF msg.old_tuple.none THEN Ok(NoDict)
                  ELSE typed(msg.old_tuple, schema, key_model)
        after == typed(msg.new_tuple, schema, model)
    IN  IF before.err # "none" THEN before
        ELSE IF after.err # "none" THEN after
        ELSE RowEvent("U", transaction, schema, before.ret, after.ret)

\* process_update
process_update(msg, transaction, store) ==
    LET schema == table_schema(store.table_schemas, msg.relation_id)
        model == table_schema(store.table_models, msg.relation_id)
        key_model == table_schema(store.key_models, msg.relation_id)
        before == IF msg.old_tuple.none THEN Ok(NoDict)
                  ELSE IF msg.optional_tuple_identifier = "O"
                  THEN typed(msg.old_tuple, schema, model)
                  ELSE typed(msg.old_tuple, schema, key_model)
        after == typed(msg.new_tuple, schema, model)
    IN  IF before.err # "none" THEN before
        ELSE IF after.err # "none" THEN after
        ELSE RowEvent("U", transaction, schema, before.ret, after.ret)

\* A process_delete that takes the full-row validator for every old tuple.
process_delete_full_row(msg, transaction, store) ==
    LET schema == table_schema(store.table_schemas, msg.relation_id)
        model == table_schema(store.table_models, msg.relation_id)
        before == typed(msg.old_tuple, schema, model)
    IN  IF before.err # "none" THEN before
        ELSE RowEvent("D", transaction, schema, before.ret, NoDict)

\* process_delete
process_delete(msg, transaction, store) ==
    LET schema == table_schema(store.table_schemas, msg.relation_id)
        model == table_schema(store.table_models, msg.relation_id)
        key_model == table_schema(store.key_models, msg.relation_id)
        before == IF msg.message_type = "O"
                  THEN typed(msg.old_tuple, schema, model)
                  ELSE typed(msg.old_tuple, schema, key_model)
    IN  IF before.err # "none" THEN before
        ELSE RowEvent("D", transaction, schema, before.ret, NoDict)

\* TableSchema.get_key_columns
get_key_columns(schema) ==
    LET keys == key_definitions(schema.column_definitions)
    IN  [i \in 1 .. Len(keys) |-> keys[i].name]

\* key[name] = value: a new name goes last, a name the dict has keeps its
\* place and gets the value.
set_item(dict, name, value) ==
    Dict(IF \E i \in 1 .. Len(dict.keys) : dict.keys[i] = name
         THEN dict.keys ELSE Append(dict.keys, name),
         put(dict.val, name, value))

\* The three virtual fields _add_key sets after the columns.
with_virtual_fields(key, schema) ==
    set_item(set_item(set_item(key, "database", RawText(Database)),
                      "namespace", RawText(schema.namespace)),
             "table", RawText(schema.table))

\* An _add_key that always takes the key columns of the after image.
add_key_from_after(event) ==
    LET key_columns == get_key_columns(event.table_schema)
    IN  IF key_columns # <<>> /\ event.after.null THEN Raise("TypeError")
        ELSE Ok([event EXCEPT !.key =
                    with_virtual_fields(
                        Dict(key_columns,
                             [name \in {key_columns[i] : i \in 1 .. Len(key_columns)} |->
                                 event.after.val[name]]),
                        event.table_schema)])

\* _add_key: the before image when it is truthy (not None and not empty),
\* otherwise the key columns of the after image (subscripting None is a
\* TypeError, a missing column a KeyError); then the virtual fields.
add_key(event) ==
    LET key_columns == get_key_columns(event.table_schema)
    IN  IF ~event.before.null /\ event.before.keys # <<>>
        THEN Ok([event EXCEPT !.key = with_virtual_fields(event.before,
                                                          event.table_schema)])
        ELSE IF key_columns # <<>> /\ event.after.null THEN Raise("TypeError")
        ELSE IF \E i \in 1 .. Len(key_columns) :
                   \A j \in 1 .. Len(event.after.keys) :
                       event.after.keys[j] # key_columns[i]
        THEN Raise("KeyError")
        ELSE Ok([event EXCEPT !.key =
                    with_virtual_fields(
                        Dict(key_columns,
                             [name \in {key_columns[i] : i \in 1 .. Len(key_columns)} |->
                                 event.after.val[name]]),
                        event.table_schema)])

\* The I, U and D branches of transform_raw: the processor, then _add_key.
transform_row(msg, transaction, store) ==
    LET event == CASE msg.tag = "I" -> process_insert(msg, transaction, store)
                   [] msg.tag = "U" -> process_update(msg, transaction, store)
                   [] msg.tag = "D" -> process_delete(msg, transaction, store)
    IN  IF event.err # "none" THEN event ELSE add_key(event.ret)

\* The Relation messages rows are processed against: the first column of
\* type OID 23, the second of 1700.
RowRelationMessages ==
    {m \in PlainRelationMessages :
        \A i \in 1 .. Len(m.columns) : m.columns[i].type_id = (IF i = 1 THEN 23 ELSE 1700)}

\* The transaction the rows belong to.
RowTransaction == process_begin(NoMsg, 1)

\* A store that has processed one Relation message for RelId.
RowInit ==
    /\ SessionInit
    /\ slot
    /\ processed = NoOp
    /\ \E m \in RowRelationMessages :
         \E src \in SourceAnswers(m.columns, <<>>, RowTypeNames) :
            metadata_store = upsert_relation(m, EmptyStore, src, 0).store

\* What transform_raw made of one row message.
row_processed(msg, store) ==
    [op |-> msg.tag, msg |-> msg, res |-> transform_row(msg, RowTransaction, store),
     queries |-> 0]

\* An Insert message is processed: process_insert and _add_key.
Insert ==
    /\ processed.op = "none"
    /\ \E msg \in InsertMessages : processed' = row_processed(msg, metadata_store)
    /\ UNCHANGED <<session_vars, metadata_store>>

\* An Update message is processed: process_update and _add_key.
Update ==
    /\ processed.op = "none"
    /\ \E msg \in UpdateMessages : processed' = row_processed(msg, metadata_store)
    /\ UNCHANGED <<session_vars, metadata_store>>

\* A Delete message is processed: process_delete and _add_key.
Delete ==
    /\ processed.op = "none"
    /\ \E msg \in DeleteMessages : processed' = row_processed(msg, metadata_store)
    /\ UNCHANGED <<session_vars, metadata_store>>

RowNext == Insert \/ Update \/ Delete

RowSpec == RowInit /\ [][RowNext]_vars

\* ------------------------------------------------ the wire format (pgoutput v1)
\* Payloads are sequences of bytes.  The first byte of a payload is its tag.
TagByte ==
    [B |-> 66, C |-> 67, O |-> 79, R |-> 82, I |-> 73, U |-> 85, D |-> 68, T |-> 84,
     N |-> 78, K |-> 75, n |-> 110, u |-> 117, t |-> 116]

\* The k-th base-256 digit of a number below 2^31 (digits from the fifth on
\* are zero).
Digit(v, k) == IF k >= 4 THEN 0 ELSE (v \div (256 ^ k)) % 256

\* A signed integer of the given width in bytes, big-endian two's complement.
put_int(v, width) ==
    [i \in 1 .. width |->
        IF v >= 0 THEN Digit(v, width - i) ELSE 255 - Digit((-v) - 1, width - i)]

\* A string: its bytes and the terminator 0x00.
put_string(str) == str \o <<0>>

\* One cell: its tag; a text cell also its length and its bytes.
put_cell(cell) ==
    <<TagByte[cell.tag]>>
    \o (IF cell.tag = "t" THEN put_int(Len(cell.data), 4) \o cell.data ELSE <<>>)

RECURSIVE put_cells(_)
put_cells(cells) ==
    IF cells = <<>> THEN <<>> ELSE put_cell(Head(cells)) \o put_cells(Tail(cells))

\* TupleData: int16 ncolumns, then the cells.
put_tuple(cells) == put_int(Len(cells), 2) \o put_cells(cells)

RECURSIVE put_columns(_)
put_columns(columns) ==
    IF columns = <<>> THEN <<>>
    ELSE LET c == Head(columns)
         IN  put_int(c.flags, 1) \o put_string(c.name) \o put_int(c.type_id, 4)
             \o put_int(c.atttypmod, 4) \o put_columns(Tail(columns))

RECURSIVE put_ints(_, _)
put_ints(values, width) ==
    IF values = <<>> THEN <<>>
    ELSE put_int(Head(values), width) \o put_ints(Tail(values), width)

\* The payload of a message record: the layout of each message in order.
encode(rec) ==
    <<TagByte[rec.tag]>> \o
    CASE rec.tag = "B" ->
            put_int(rec.final_lsn, 8) \o put_int(rec.commit_ts, 8) \o put_int(rec.xid, 4)
      [] rec.tag = "C" ->
            put_int(rec.flags, 1) \o put_int(rec.commit_lsn, 8)
            \o put_int(rec.end_lsn, 8) \o put_int(rec.commit_ts, 8)
      [] rec.tag = "O" ->
            put_int(rec.commit_lsn, 8) \o put_string(rec.name)
      [] rec.tag = "R" ->
            put_int(rec.relation_id, 4) \o put_string(rec.namespace)
            \o put_string(rec.relation_name) \o put_int(rec.replica_identity, 1)
            \o put_int(Len(rec.columns), 2) \o put_columns(rec.columns)
      [] rec.tag = "I" ->
            put_int(rec.relation_id, 4) \o <<TagByte.N>> \o put_tuple(rec.new_tuple)
      [] rec.tag = "U" ->
            put_int(rec.relation_id, 4)
            \o (IF rec.old_tag = "N" THEN <<>>
                ELSE <<TagByte[rec.old_tag]>> \o put_tuple(rec.old_tuple))
            \o <<TagByte.N>> \o put_tuple(rec.new_tuple)
      [] rec.tag = "D" ->
            put_int(rec.relation_id, 4) \o <<TagByte[rec.old_tag]>>
            \o put_tuple(rec.old_tuple)
      [] rec.tag = "T" ->
            put_int(Len(rec.relation_ids), 4) \o put_int(rec.options, 1)
            \o put_ints(rec.relation_ids, 4)

\* The byte reader: a payload, the offset of the next byte and the error met.
\* Every read returns [v, r]: the value and the reader afterwards.
ByteReader(payload) == [payload |-> payload, offset |-> 0, err |-> "none"]

RECURSIVE horner(_, _)
horner(digits, acc) ==
    IF digits = <<>> THEN acc ELSE horner(Tail(digits), acc * 256 + Head(digits))

\* The signed value of big-endian two's complement bytes.
signed(bs) ==
    IF bs[1] >= 128 THEN -(1 + horner([i \in 1 .. Len(bs) |-> 255 - bs[i]], 0))
    ELSE horner(bs, 0)

\* bytes(n): the next n bytes; underflow is DecodeError(kind=truncated).
bytes(r, n) ==
    IF r.err # "none" THEN [v |-> <<>>, r |-> r]
    ELSE IF n < 0 \/ r.offset + n > Len(r.payload)
    THEN [v |-> <<>>, r |-> [r EXCEPT !.err = "truncated"]]
    ELSE [v |-> SubSeq(r.payload, r.offset + 1, r.offset + n),
          r |-> [r EXCEPT !.offset = @ + n]]

\* int8, int16, int32, int64
int(r, width) ==
    LET b == bytes(r, width)
    IN  [v |-> IF b.r.err # "none" THEN 0 ELSE signed(b.v), r |-> b.r]

\* string: the bytes up to the next 0x00; the reader moves past the terminator.
string(r) ==
    IF r.err # "none" THEN [v |-> <<>>, r |-> r]
    ELSE IF \A i \in (r.offset + 1) .. Len(r.payload) : r.payload[i] # 0
    THEN [v |-> <<>>, r |-> [r EXCEPT !.err = "truncated"]]
    ELSE LET end == CHOOSE i \in (r.offset + 1) .. Len(r.payload) :
                        /\ r.payload[i] = 0
                        /\ \A j \in (r.offset + 1) .. (i - 1) : r.payload[j] # 0
         IN  [v |-> SubSeq(r.payload, r.offset + 1, end - 1),
              r |-> [r EXCEPT !.offset = end]]

\* The name of a tag byte among the given names; "?" for any other byte.
tag_of(byte, names) ==
    IF \E name \in names : TagByte[name] = byte
    THEN CHOOSE name \in names : TagByte[name] = byte
    ELSE "?"

Malformed(r) == [r EXCEPT !.err = IF @ = "none" THEN "malformed" ELSE @]

\* value bound to a name for the step F: the value is computed once.
Bind(value, F(_)) == CHOOSE result \in {F(x) : x \in {value}} : TRUE

\* A cell decoder that reads an unchanged TOAST cell as a null cell.
decode_cell_toast_as_null(r) ==
    Bind(int(r, 1), LAMBDA tag :
        IF tag.r.err # "none" THEN [v |-> None, r |-> tag.r]
        ELSE IF tag_of(tag.v, {"n", "u", "t"}) = "?"
        THEN [v |-> None, r |-> Malformed(tag.r)]
        ELSE IF tag_of(tag.v, {"n", "u", "t"}) = "t"
        THEN Bind(int(tag.r, 4), LAMBDA len :
             Bind(bytes(len.r, len.v), LAMBDA data :
                 [v |-> [tag |-> "t", data |-> data.v], r |-> data.r]))
        ELSE [v |-> [tag |-> "n", data |-> <<>>], r |-> tag.r])

\* One cell of a TupleData: int8 tag; a text cell has an int32 length and that
\* many bytes.
decode_cell(r) ==
    Bind(int(r, 1), LAMBDA tag :
        IF tag.r.err # "none" THEN [v |-> None, r |-> tag.r]
        ELSE IF tag_of(tag.v, {"n", "u", "t"}) = "?"
        THEN [v |-> None, r |-> Malformed(tag.r)]
        ELSE IF tag_of(tag.v, {"n", "u", "t"}) = "t"
        THEN Bind(int(tag.r, 4), LAMBDA len :
             Bind(bytes(len.r, len.v), LAMBDA data :
                 [v |-> [tag |-> "t", data |-> data.v], r |-> data.r]))
        ELSE [v |-> [tag |-> tag_of(tag.v, {"n", "u", "t"}), data |-> <<>>],
              r |-> tag.r])

RECURSIVE decode_cells(_, _, _)
decode_cells(r, n, cells) ==
    IF n <= 0 \/ r.err # "none" THEN [v |-> cells, r |-> r]
    ELSE Bind(decode_cell(r), LAMBDA c :
             IF c.r.err # "none" THEN [v |-> cells, r |-> c.r]
             ELSE Bind(Append(cells, c.v), LAMBDA more :
                      decode_cells(c.r, n - 1, more)))

\* TupleData: int16 ncolumns, then that many cells.
decode_tuple(r) ==
    Bind(int(r, 2), LAMBDA n : decode_cells(n.r, n.v, <<>>))

\* One column of a Relation message: int8 flags, string name, int32 type-id,
\* int32 atttypmod.
decode_column(r) ==
    Bind(int(r, 1), LAMBDA flags :
    Bind(string(flags.r), LAMBDA name :
    Bind(int(name.r, 4), LAMBDA type_id :
    Bind(int(type_id.r, 4), LAMBDA atttypmod :
        [v |-> [flags |-> flags.v, name |-> name.v, type_id |-> type_id.v,
                atttypmod |-> atttypmod.v],
         r |-> atttypmod.r]))))

RECURSIVE decode_columns(_, _, _)
decode_columns(r, n, columns) ==
    IF n <= 0 \/ r.err # "none" THEN [v |-> columns, r |-> r]
    ELSE Bind(decode_column(r), LAMBDA c :
             IF c.r.err # "none" THEN [v |-> columns, r |-> c.r]
             ELSE Bind(Append(columns, c.v), LAMBDA more :
                      decode_columns(c.r, n - 1, more)))

RECURSIVE decode_ints(_, _, _, _)
decode_ints(r, n, width, values) ==
    IF n <= 0 \/ r.err # "none" THEN [v |-> values, r |-> r]
    ELSE Bind(int(r, width), LAMBDA i :
             IF i.r.err # "none" THEN [v |-> values, r |-> i.r]
             ELSE Bind(Append(values, i.v), LAMBDA more :
                      decode_ints(i.r, n - 1, width, more)))

\* The decoders by tag.  Each returns [v, r]: the record and the reader.
decode_begin(r) ==
    Bind(int(r, 8), LAMBDA final_lsn :
    Bind(int(final_lsn.r, 8), LAMBDA commit_ts :
    Bind(int(commit_ts.r, 4), LAMBDA xid :
        [v |-> [tag |-> "B", final_lsn |-> final_lsn.v, commit_ts |-> commit_ts.v,
                xid |-> xid.v],
         r |-> xid.r])))

decode_commit(r) ==
    Bind(int(r, 1), LAMBDA flags :
    Bind(int(flags.r, 8), LAMBDA commit_lsn :
    Bind(int(commit_lsn.r, 8), LAMBDA end_lsn :
    Bind(int(end_lsn.r, 8), LAMBDA commit_ts :
        [v |-> [tag |-> "C", flags |-> flags.v, commit_lsn |-> commit_lsn.v,
                end_lsn |-> end_lsn.v, commit_ts |-> commit_ts.v],
         r |-> commit_ts.r]))))

decode_origin(r) ==
    Bind(int(r, 8), LAMBDA commit_lsn :
    Bind(string(commit_lsn.r), LAMBDA name :
        [v |-> [tag |-> "O", commit_lsn |-> commit_lsn.v, name |-> name.v],
         r |-> name.r]))

decode_relation(r) ==
    Bind(int(r, 4), LAMBDA relation_id :
    Bind(string(relation_id.r), LAMBDA namespace :
    Bind(string(namespace.r), LAMBDA relation_name :
    Bind(int(relation_name.r, 1), LAMBDA replica_identity :
    Bind(int(replica_identity.r, 2), LAMBDA ncols :
    Bind(decode_columns(ncols.r, ncols.v, <<>>), LAMBDA columns :
        [v |-> [tag |-> "R", relation_id |-> relation_id.v, namespace |-> namespace.v,
                relation_name |-> relation_name.v,
                replica_identity |-> replica_identity.v, columns |-> columns.v],
         r |-> columns.r]))))))

\* The byte N and the new tuple after it.
decode_new_tuple(r) ==
    Bind(int(r, 1), LAMBDA new :
        IF new.r.err = "none" /\ new.v # TagByte.N
        THEN [v |-> <<>>, r |-> Malformed(new.r)]
        ELSE decode_tuple(new.r))

decode_insert(r) ==
    Bind(int(r, 4), LAMBDA relation_id :
    Bind(decode_new_tuple(relation_id.r), LAMBDA new_tuple :
        [v |-> [tag |-> "I", relation_id |-> relation_id.v, new_tuple |-> new_tuple.v],
         r |-> new_tuple.r]))

\* Update: when the byte after the relation id is K or O an old tuple follows,
\* then N and the new tuple; when it is N there is no old tuple.
decode_update(r) ==
    Bind(int(r, 4), LAMBDA relation_id :
    Bind(int(relation_id.r, 1), LAMBDA first :
    Bind(tag_of(first.v, {"K", "O", "N"}), LAMBDA old_tag :
        IF first.r.err = "none" /\ old_tag = "?"
        THEN [v |-> None, r |-> Malformed(first.r)]
        ELSE IF old_tag = "N"
        THEN Bind(decode_tuple(first.r), LAMBDA new_tuple :
                 [v |-> [tag |-> "U", relation_id |-> relation_id.v, old_tag |-> "N",
                         old_tuple |-> <<>>, new_tuple |-> new_tuple.v],
                  r |-> new_tuple.r])
        ELSE Bind(decode_tuple(first.r), LAMBDA old_tuple :
             Bind(decode_new_tuple(old_tuple.r), LAMBDA new_tuple :
                 [v |-> [tag |-> "U", relation_id |-> relation_id.v,
                         old_tag |-> old_tag, old_tuple |-> old_tuple.v,
                         new_tuple |-> new_tuple.v],
                  r |-> new_tuple.r])))))

decode_delete(r) ==
    Bind(int(r, 4), LAMBDA relation_id :
    Bind(int(relation_id.r, 1), LAMBDA first :
        IF first.r.err = "none" /\ tag_of(first.v, {"K", "O"}) = "?"
        THEN [v |-> None, r |-> Malformed(first.r)]
        ELSE Bind(decode_tuple(first.r), LAMBDA old_tuple :
                 [v |-> [tag |-> "D", relation_id |-> relation_id.v,
                         old_tag |-> tag_of(first.v, {"K", "O"}),
                         old_tuple |-> old_tuple.v],
                  r |-> old_tuple.r])))

decode_truncate(r) ==
    Bind(int(r, 4), LAMBDA nrelations :
    Bind(int(nrelations.r, 1), LAMBDA options :
    Bind(decode_ints(options.r, nrelations.v, 4, <<>>), LAMBDA relation_ids :
        [v |-> [tag |-> "T", options |-> options.v, relation_ids |-> relation_ids.v],
         r |-> relation_ids.r])))

\* The decoder: the first byte of the payload selects the decoder; the result
\* is [res, offset], the record or the error and the bytes consumed.
decode(payload) ==
    Bind(int(ByteReader(payload), 1), LAMBDA first :
    Bind(tag_of(first.v, {"B", "C", "O", "R", "I", "U", "D", "T"}), LAMBDA tag :
    Bind(CASE tag = "B" -> decode_begin(first.r)
           [] tag = "C" -> decode_commit(first.r)
           [] tag = "O" -> decode_origin(first.r)
           [] tag = "R" -> decode_relation(first.r)
           [] tag = "I" -> decode_insert(first.r)
           [] tag = "U" -> decode_update(first.r)
           [] tag = "D" -> decode_delete(first.r)
           [] tag = "T" -> decode_truncate(first.r)
           [] OTHER -> [v |-> None, r |-> Malformed(first.r)],
         LAMBDA d :
             [res |-> IF d.r.err = "none" THEN Ok(d.v) ELSE Raise(d.r.err),
              offset |-> d.r.offset])))

\* The values of the records that are encoded and decoded: integers whose
\* bytes differ from each other, a negative one, names and cell texts (one
\* with a zero byte and a byte that is a cell tag).
WireLsns == {0, 258}
WireTimes == {-1, 16909060}
WireXids == {1, 258}
WireRelIds == {1, 16777217}
WireNames == {<<>>, <<105, 100>>}
WireTexts == {<<>>, <<49>>, <<0, 110>>}
WireCells == [tag : {"n", "u"}, data : {<<>>}] \cup [tag : {"t"}, data : WireTexts]
MaxWireColumns == 2
WireTuples == UNION {[1 .. n -> WireCells] : n \in 0 .. MaxWireColumns}
WireColumns ==
    [flags : {0, 1}, name : {<<105, 100>>}, type_id : {23, 1700}, atttypmod : {-1, 655366}]

TransactionRecords ==
    [tag : {"B"}, final_lsn : WireLsns, commit_ts : WireTimes, xid : WireXids]
    \cup [tag : {"C"}, flags : {0}, commit_lsn : WireLsns, end_lsn : WireLsns,
          commit_ts : WireTimes]
    \cup [tag : {"O"}, commit_lsn : WireLsns, name : WireNames]
RelationRecords ==
    [tag : {"R"}, relation_id : WireRelIds, namespace : WireNames,
     relation_name : {<<116>>}, replica_identity : {100, 102},
     columns : UNION {[1 .. n -> WireColumns] : n \in 0 .. MaxWireColumns}]
RowRecords ==
    [tag : {"I"}, relation_id : WireRelIds, new_tuple : WireTuples]
    \cup [tag : {"U"}, relation_id : {1}, old_tag : {"K", "O"}, old_tuple : WireTuples,
          new_tuple : WireTuples]
    \cup [tag : {"U"}, relation_id : WireRelIds, old_tag : {"N"}, old_tuple : {<<>>},
          new_tuple : WireTuples]
    \cup [tag : {"D"}, relation_id : WireRelIds, old_tag : {"K", "O"},
          old_tuple : WireTuples]
TruncateRecords ==
    [tag : {"T"}, options : 0 .. 3,
     relation_ids : UNION {[1 .. n -> WireRelIds] : n \in 0 .. 2}]

\* A record was encoded and its payload decoded.
decoded(rec) ==
    Bind(encode(rec), LAMBDA payload :
    Bind(decode(payload), LAMBDA d :
        [op |-> "decode", msg |-> rec,
         res |-> [ret |-> [record |-> d.res.ret, offset |-> d.offset,
                           length |-> Len(payload)],
                  err |-> d.res.err],
         queries |-> 0]))

DecodeInit ==
    /\ SessionInit
    /\ slot
    /\ metadata_store = EmptyStore
    /\ processed = NoOp

\* A Begin, Commit or Origin payload is decoded.
DecodeTransaction ==
    /\ processed.op = "none"
    /\ \E rec \in TransactionRecords : processed' = decoded(rec)
    /\ UNCHANGED <<session_vars, metadata_store>>

\* A Relation payload is decoded.
DecodeRelation ==
    /\ processed.op = "none"
    /\ \E rec \in RelationRecords : processed' = decoded(rec)
    /\ UNCHANGED <<session_vars, metadata_store>>

\* An Insert, Update or Delete payload is decoded.
DecodeRow ==
    /\ processed.op = "none"
    /\ \E rec \in RowRecords : processed' = decoded(rec)
    /\ UNCHANGED <<session_vars, metadata_store>>

\* A Truncate payload is decoded.
DecodeTruncate ==
    /\ processed.op = "none"
    /\ \E rec \in TruncateRecords : processed' = decoded(rec)
    /\ UNCHANGED <<session_vars, metadata_store>>

DecodeNext == DecodeTransaction \/ DecodeRelation \/ DecodeRow \/ DecodeTruncate

DecodeSpec == DecodeInit /\ [][DecodeNext]_vars

\* ------------------------------------------------------ the source handler
\* The queries given to fetchone and fetch: one the server runs, one it
\* rejects.
Queries == {"valid", "invalid"}

\* cursor.execute(query): the driver error it raises, "none" when it runs.
execute(conn, query) ==
    IF conn = "closed" THEN "InterfaceError"
    ELSE IF conn = "lost" THEN "OperationalError"
    ELSE IF query = "invalid" THEN "ProgrammingError"
    ELSE "none"

\* self.conn.rollback(): the driver error it raises, "none" when it runs.
rollback(conn) ==
    IF conn = "closed" THEN "InterfaceError"
    ELSE IF conn = "lost" THEN "OperationalError"
    ELSE "none"

\* The connection after a driver call: the driver closes a connection whose
\* server end it finds gone.
after_call(conn) == IF conn = "lost" THEN "closed" ELSE conn

\* cursor.close() in the finally clause.
cursor_close(handler) == [handler EXCEPT !.open_cursors = @ - 1]

\* fetchone: [handler, res].  The cursor is made (ResourceError when that
\* fails); the query is executed and the row returned, or the connection is
\* rolled back and QueryError raised; an error of the rollback leaves in its
\* place; the finally clause closes the cursor.
fetchone(handler, query, cursor_fails) ==
    IF cursor_fails
    THEN [handler |-> handler, res |-> Raise("ResourceError")]
    ELSE LET opened == [handler EXCEPT !.open_cursors = @ + 1]
             e == execute(handler.conn, query)
             ran == [opened EXCEPT !.queries = @ + 1,
                                   !.conn = after_call(handler.conn)]
         IN  IF e = "none"
             THEN [handler |-> cursor_close(ran), res |-> Ok([kind |-> "DictRow"])]
             ELSE IF rollback(ran.conn) # "none"
             THEN [handler |-> cursor_close(ran), res |-> Raise(rollback(ran.conn))]
             ELSE [handler |-> cursor_close([ran EXCEPT !.rollbacks = @ + 1]),
                   res |-> Raise("QueryError")]

\* fetch: as fetchone, with fetchall.
fetch(handler, query, cursor_fails) ==
    IF cursor_fails
    THEN [handler |-> handler, res |-> Raise("ResourceError")]
    ELSE LET opened == [handler EXCEPT !.open_cursors = @ + 1]
             e == execute(handler.conn, query)
             ran == [opened EXCEPT !.queries = @ + 1,
                                   !.conn = after_call(handler.conn)]
         IN  IF e = "none"
             THEN [handler |-> cursor_close(ran), res |-> Ok([kind |-> "List[DictRow]"])]
             ELSE IF rollback(ran.conn) # "none"
             THEN [handler |-> cursor_close(ran), res |-> Raise(rollback(ran.conn))]
             ELSE [handler |-> cursor_close([ran EXCEPT !.rollbacks = @ + 1]),
                   res |-> Raise("QueryError")]

\* What a call of the handler was given and met.
Fetched(op, query, cursor_fails, before, r) ==
    [op |-> op,
     msg |-> [query |-> query, cursor_fails |-> cursor_fails, conn |-> before.conn,
              rollbacks |-> before.rollbacks],
     res |-> r.res, queries |-> r.handler.queries - before.queries]

SourceInit ==
    /\ SessionInit
    /\ slot
    /\ metadata_store = EmptyStore
    /\ processed = NoOp

\* handler.fetchone(query)
Fetchone ==
    /\ source_db_handler.conn # "closed"
    /\ source_db_handler.queries < MaxQueries
    /\ \E query \in Queries, cursor_fails \in BOOLEAN :
          LET r == fetchone(source_db_handler, query, cursor_fails)
          IN  /\ source_db_handler' = r.handler
              /\ processed' = Fetched("fetchone", query, cursor_fails,
                                      source_db_handler, r)
    /\ UNCHANGED <<reader_vars, metadata_store, transactions, consumers>>

\* handler.fetch(query)
Fetch ==
    /\ source_db_handler.conn # "closed"
    /\ source_db_handler.queries < MaxQueries
    /\ \E query \in Queries, cursor_fails \in BOOLEAN :
          LET r == fetch(source_db_handler, query, cursor_fails)
          IN  /\ source_db_handler' = r.handler
              /\ processed' = Fetched("fetch", query, cursor_fails,
                                      source_db_handler, r)
    /\ UNCHANGED <<reader_vars, metadata_store, transactions, consumers>>

\* handler.connect(): a new connection.
Connect ==
    /\ source_db_handler.conn # "open"
    /\ source_db_handler' = [source_db_handler EXCEPT !.conn = "open"]
    /\ processed' = NoOp
    /\ UNCHANGED <<reader_vars, metadata_store, transactions, consumers>>

\* handler.close()
Close ==
    /\ source_db_handler.conn # "closed"
    /\ source_db_handler' = [source_db_handler EXCEPT !.conn = "closed"]
    /\ processed' = NoOp
    /\ UNCHANGED <<reader_vars, metadata_store, transactions, consumers>>

\* The server end of the handler's connection goes away.
ConnectionLost ==
    /\ source_db_handler.conn = "open"
    /\ source_db_handler' = [source_db_handler EXCEPT !.conn = "lost"]
    /\ processed' = NoOp
    /\ UNCHANGED <<reader_vars, metadata_store, transactions, consumers>>

SourceNext == Fetchone \/ Fetch \/ Connect \/ Close \/ ConnectionLost

SourceSpec == SourceInit /\ [][SourceNext]_vars

\* ------------------------------------------- transactions at object level
\* decoders.Begin: tx_xid, lsn and commit_ts of a Begin message.
BeginMessages == [tx_xid : {1, 2}, lsn : Lsns, commit_ts : {0, 1}]

\* process_begin with the fields of the Begin message: a new Transaction.
Transaction(begin_msg) ==
    [kind |-> "Transaction", op |-> "B", tx_id |-> begin_msg.tx_xid,
     begin_lsn |-> begin_msg.lsn, commit_ts |-> begin_msg.commit_ts]

\* A C branch that sets op on the context object itself and hands that on.
commit_in_place(heap, context) ==
    [heap |-> [heap EXCEPT ![context].op = "C"], txn |-> context, context |-> 0]

\* The C branch of transform_raw: txn = self.transaction_metadata.copy(), a
\* new object; txn.op = "C"; self.transaction_metadata = None; return txn.
commit(heap, context) ==
    [heap |-> Append(heap, [heap[context] EXCEPT !.op = "C"]),
     txn |-> Len(heap) + 1, context |-> 0]

\* The reference a pydantic field of model type keeps for a Transaction object
\* it is given: the object itself, or a copy of it
\* (Config.copy_on_model_validation, which depends on the pydantic version).
validated(heap, ref, copies) ==
    IF copies THEN [heap |-> Append(heap, heap[ref]), ref |-> Len(heap) + 1]
    ELSE [heap |-> heap, ref |-> ref]

TxInit ==
    /\ SessionInit
    /\ slot
    /\ metadata_store = EmptyStore
    /\ processed = NoOp

\* A Begin message: the B branch of transform_raw, then handle_begin.
TxBegin ==
    /\ ~transactions.ended
    /\ transactions.context = 0
    /\ transactions.heap = <<>>
    /\ \E begin_msg \in BeginMessages, outcome \in HandlerOutcomes :
          transactions' =
              [heap |-> <<Transaction(begin_msg)>>, context |-> 1,
               begun |-> [ref |-> 1, value |-> Transaction(begin_msg)],
               events |-> <<>>, committed |-> 0, seen |-> 0,
               ended |-> outcome # "ok"]
    /\ UNCHANGED <<reader_vars, source_db_handler, metadata_store, processed, consumers>>

\* An Insert, Update or Delete message inside the transaction: ChangeEvent
\* with transaction=self.transaction_metadata, then handle_change_event.
TxEvent ==
    /\ ~transactions.ended
    /\ transactions.context # 0
    /\ Len(transactions.events) < MaxEvents
    /\ \E copies \in BOOLEAN, outcome \in HandlerOutcomes :
          LET v == validated(transactions.heap, transactions.context, copies)
          IN  transactions' =
                  [transactions EXCEPT !.heap = v.heap,
                                       !.events = Append(@, v.ref),
                                       !.ended = outcome # "ok"]
    /\ UNCHANGED <<reader_vars, source_db_handler, metadata_store, processed, consumers>>

\* A Commit message inside the transaction: the C branch of transform_raw,
\* then handle_commit, which returns or raises.
TxCommit ==
    /\ ~transactions.ended
    /\ transactions.context # 0
    /\ \E outcome \in HandlerOutcomes :
          LET c == commit(transactions.heap, transactions.context)
          IN  transactions' =
                  [transactions EXCEPT !.heap = c.heap,
                                       !.context = c.context,
                                       !.committed = c.txn,
                                       !.seen = c.context,
                                       !.ended = outcome # "ok"]
    /\ UNCHANGED <<reader_vars, source_db_handler, metadata_store, processed, consumers>>

TxNext == TxBegin \/ TxEvent \/ TxCommit

TxSpec == TxInit /\ [][TxNext]_vars

\* ------------------------------------------------- the bundled consumers
\* A StateStore.handle_begin that reports the Begin's LSN as flushed.
state_store_handle_begin_flushing(store, txn) ==
    [store |-> [txn_id |-> <<txn.tx_id>>, txn_ts |-> <<txn.commit_ts>>,
                txn_lsn |-> <<txn.begin_lsn>>],
     send |-> <<[kind |-> "flush", lsn |-> txn.begin_lsn]>>]

\* StateStore.handle_begin(txn, msg): keeps the transaction's fields and
\* sends msg.cursor.send_feedback(write_lsn=txn.begin_lsn).
state_store_handle_begin(store, txn) ==
    [store |-> [txn_id |-> <<txn.tx_id>>, txn_ts |-> <<txn.commit_ts>>,
                txn_lsn |-> <<txn.begin_lsn>>],
     send |-> <<[kind |-> "write", lsn |-> txn.begin_lsn]>>]

\* StateStore.handle_commit(txn, msg): clears the fields and sends
\* msg.cursor.send_feedback(flush_lsn=msg.data_start).
state_store_handle_commit(store, txn, data_start) ==
    [store |-> [txn_id |-> <<>>, txn_ts |-> <<>>, txn_lsn |-> <<>>],
     send |-> <<[kind |-> "flush", lsn |-> data_start]>>]

\* DataStore.handle_begin(txn, message): keeps the transaction's fields.
data_store_handle_begin(store, txn) ==
    [store EXCEPT !.txn_id = <<txn.tx_id>>, !.txn_ts = <<txn.commit_ts>>,
                  !.txn_lsn = <<txn.begin_lsn>>]

\* DataStore.handle_commit(txn, message): clears the fields, then calls
\* self.commit_callback(txn.begin_lsn): calling None is a TypeError; the
\* session's callback sends flush feedback unless the LSN is below the
\* highest one flushed.
data_store_handle_commit(store, txn, flush) ==
    LET cleared == [store EXCEPT !.txn_id = <<>>, !.txn_ts = <<>>, !.txn_lsn = <<>>]
        c == commit_callback(txn.begin_lsn, flush)
    IN  IF store.commit_callback = "None"
        THEN [store |-> cleared, err |-> "TypeError", invoked |-> <<>>,
              flush_lsn |-> flush, send |-> <<>>]
        ELSE [store |-> cleared, err |-> "none", invoked |-> <<txn.begin_lsn>>,
              flush_lsn |-> c.flush_lsn,
              send |-> [i \in 1 .. Len(c.send) |-> [kind |-> "flush", lsn |-> c.send[i]]]]

\* The data_start of a Commit message: the end of the commit record, beyond
\* the final LSN the Begin message of its transaction carries.
CommitDataStarts(txn) == {l \in 1 .. MaxLsn + 1 : l > txn.begin_lsn}

\* A reader constructed with the bundled consumers.
ConsumerInit ==
    /\ SessionInit
    /\ metadata_store = EmptyStore
    /\ processed = NoOp

\* The application takes a DataStore for both consumers of the reader.
UseDataStore ==
    /\ consumers = Consumers("stores")
    /\ consumers' = Consumers("DataStore")
    /\ UNCHANGED <<reader_vars, source_db_handler, transactions, metadata_store, processed>>

\* The application assigns data_store.commit_callback (the property setter).
SetCommitCallback ==
    /\ consumers.bundle = "DataStore"
    /\ consumers.data_store.commit_callback = "None"
    /\ consumers.last.err = "none"
    /\ consumers' = [consumers EXCEPT !.data_store.commit_callback = "callable"]
    /\ UNCHANGED <<reader_vars, source_db_handler, transactions, metadata_store, processed>>

\* __call__ for a Begin message: state_store.handle_begin(txn, msg).
StateStoreHandleBegin ==
    /\ consumers.bundle = "stores"
    /\ consumers.last.err = "none"
    /\ consumers.n < MaxHandlerCalls
    /\ consumers.open = <<>>
    /\ \E begin_msg \in BeginMessages :
         LET txn == Transaction(begin_msg)
             r == state_store_handle_begin(consumers.state_store, txn)
         IN  consumers' = [consumers EXCEPT
                 !.state_store = r.store,
                 !.sent = @ \o r.send,
                 !.open = <<txn>>,
                 !.last = [h |-> "handle_begin", data_start |-> NoLsn, err |-> "none"],
                 !.n = @ + 1]
    /\ UNCHANGED <<reader_vars, source_db_handler, transactions, metadata_store, processed>>

\* __call__ for a row message: change_store.handle_change_event(event,
\* message) of ChangeStore, which prints the event.
ChangeStoreHandleChangeEvent ==
    /\ consumers.bundle = "stores"
    /\ consumers.last.err = "none"
    /\ consumers.n < MaxHandlerCalls
    /\ consumers.open # <<>>
    /\ consumers' = [consumers EXCEPT
           !.last = [h |-> "handle_change_event", data_start |-> NoLsn, err |-> "none"],
           !.n = @ + 1]
    /\ UNCHANGED <<reader_vars, source_db_handler, transactions, metadata_store, processed>>

\* __call__ for a Relation message: change_store.handle_relation(relation,
\* message) of ChangeStore, which prints the schema.
ChangeStoreHandleRelation ==
    /\ consumers.bundle = "stores"
    /\ consumers.last.err = "none"
    /\ consumers.n < MaxHandlerCalls
    /\ consumers' = [consumers EXCEPT
           !.last = [h |-> "handle_relation", data_start |-> NoLsn, err |-> "none"],
           !.n = @ + 1]
    /\ UNCHANGED <<reader_vars, source_db_handler, transactions, metadata_store, processed>>

\* __call__ for a Commit message: state_store.handle_commit(txn, msg).
StateStoreHandleCommit ==
    /\ consumers.bundle = "stores"
    /\ consumers.last.err = "none"
    /\ consumers.n < MaxHandlerCalls
    /\ consumers.open # <<>>
    /\ \E data_start \in CommitDataStarts(consumers.open[1]) :
         LET r == state_store_handle_commit(consumers.state_store, consumers.open[1],
                                           data_start)
         IN  consumers' = [consumers EXCEPT
                 !.state_store = r.store,
                 !.sent = @ \o r.send,
                 !.open = <<>>,
                 !.last = [h |-> "handle_commit", data_start |-> data_start,
                           err |-> "none"],
                 !.n = @ + 1]
    /\ UNCHANGED <<reader_vars, source_db_handler, transactions, metadata_store, processed>>

\* __call__ for a Begin message, the state store being a DataStore.
DataStoreHandleBegin ==
    /\ consumers.bundle = "DataStore"
    /\ consumers.last.err = "none"
    /\ consumers.n < MaxHandlerCalls
    /\ consumers.open = <<>>
    /\ \E begin_msg \in BeginMessages :
         LET txn == Transaction(begin_msg)
         IN  consumers' = [consumers EXCEPT
                 !.data_store = data_store_handle_begin(@, txn),
                 !.open = <<txn>>,
                 !.last = [h |-> "handle_begin", data_start |-> NoLsn, err |-> "none"],
                 !.n = @ + 1]
    /\ UNCHANGED <<reader_vars, source_db_handler, transactions, metadata_store, processed>>

\* __call__ for a row message, the change store being a DataStore: it logs
\* the event.
DataStoreHandleChangeEvent ==
    /\ consumers.bundle = "DataStore"
    /\ consumers.last.err = "none"
    /\ consumers.n < MaxHandlerCalls
    /\ consumers.open # <<>>
    /\ consumers' = [consumers EXCEPT
           !.last = [h |-> "handle_change_event", data_start |-> NoLsn, err |-> "none"],
           !.n = @ + 1]
    /\ UNCHANGED <<reader_vars, source_db_handler, transactions, metadata_store, processed>>

\* __call__ for a Relation message, the change store being a DataStore: it
\* logs the schema.
DataStoreHandleRelation ==
    /\ consumers.bundle = "DataStore"
    /\ consumers.last.err = "none"
    /\ consumers.n < MaxHandlerCalls
    /\ consumers' = [consumers EXCEPT
           !.last = [h |-> "handle_relation", data_start |-> NoLsn, err |-> "none"],
           !.n = @ + 1]
    /\ UNCHANGED <<reader_vars, source_db_handler, transactions, metadata_store, processed>>

\* __call__ for a Commit message, the state store being a DataStore.  An
\* exception of the handler ends the session.
DataStoreHandleCommit ==
    /\ consumers.bundle = "DataStore"
    /\ consumers.last.err = "none"
    /\ consumers.n < MaxHandlerCalls
    /\ consumers.open # <<>>
    /\ \E data_start \in CommitDataStarts(consumers.open[1]) :
         LET r == data_store_handle_commit(consumers.data_store, consumers.open[1],
                                          consumers.flush_lsn)
         IN  consumers' = [consumers EXCEPT
                 !.data_store = r.store,
                 !.flush_lsn = r.flush_lsn,
                 !.sent = @ \o r.send,
                 !.invoked = @ \o r.invoked,
                 !.open = <<>>,
                 !.last = [h |-> "handle_commit", data_start |-> data_start,
                           err |-> r.err],
                 !.n = @ + 1]
    /\ UNCHANGED <<reader_vars, source_db_handler, transactions, metadata_store, processed>>

ConsumerNext ==
    \/ UseDataStore \/ SetCommitCallback
    \/ StateStoreHandleBegin \/ ChangeStoreHandleChangeEvent
    \/ ChangeStoreHandleRelation \/ StateStoreHandleCommit
    \/ DataStoreHandleBegin \/ DataStoreHandleChangeEvent
    \/ DataStoreHandleRelation \/ DataStoreHandleCommit

ConsumerSpec == ConsumerInit /\ [][ConsumerNext]_vars

\* ------------------------------------------------------------------ claims
Calls == 1 .. Len(calls)
IsCall(i, h, tx) == calls[i].h = h /\ calls[i].tx = tx
RowTags == {"I", "U", "D"}

\* C1: in one session every handle_change_event and every handle_commit is
\* preceded by exactly one handle_begin of its transaction and by no
\* handle_commit of it, no transaction gets two handle_begin, and whenever the
\* context is empty the transaction begun last in the session has got its
\* handle_commit; so no event is delivered before the session's first Begin or
\* between a Commit and the next Begin.
C1_BeginEventsCommit ==
    /\ \A i \in Calls :
         LET tx == calls[i].tx
         IN  /\ calls[i].h \in {"handle_change_event", "handle_commit"} =>
                  /\ Cardinality({j \in 1 .. (i - 1) : IsCall(j, "handle_begin", tx)}) = 1
                  /\ \A j \in 1 .. (i - 1) : ~IsCall(j, "handle_commit", tx)
             /\ calls[i].h = "handle_begin" =>
                  Cardinality({j \in Calls : IsCall(j, "handle_begin", tx)}) = 1
    /\ transaction_metadata = NoTx =>
         \A i \in Calls :
            (calls[i].h = "handle_begin"
               /\ \A j \in (i + 1) .. Len(calls) : calls[j].h # "handle_begin")
            => \E j \in (i + 1) .. Len(calls) : IsCall(j, "handle_commit", calls[i].tx)

C3_StopEndsGracefully ==
    err = "Stop" =>
        /\ (state = "closed" => raised = "none")
        /\ calls # <<>> /\ calls[Len(calls)].h = delivered.h
        /\ delivered.n = msgs
        /\ delivered.h = "handle_change_event" =>
              \A i \in Calls : ~IsCall(i, "handle_commit", calls[Len(calls)].tx)

\* C4: an error other than Stop raised in __call__ (by a handler, by decoding
\* or by event building) reaches the caller of the block as that error: it is
\* neither swallowed nor turned into the Stop signal.
C4_ErrorSurfaces ==
    (state = "closed" /\ err \notin {"none", "Stop"}) =>
        (raised # "none" /\ raised # "StopIteration")

\* C5: once the block has been left, by whatever path, the cursor was closed
\* and then the connection, and neither is open.
C5_ClosedOnEveryExit ==
    state = "closed" =>
        /\ closes = <<"cursor", "connection">>
        /\ cursor = "closed"
        /\ connection = "closed"

\* C5 witness: the block was left by a consumer Stop and the resources closed.
C5_Witness ==
    /\ state = "closed"
    /\ err = "Stop"
    /\ closes = <<"cursor", "connection">>

\* C6: when __enter__ fails after it has opened the connection, the cursor
\* and the connection it opened are released before the caller sees the
\* error.
C6_EntryFailureReleases ==
    (state = "entry_failed" /\ entry.opened) =>
        (connection # "open" /\ cursor # "open")

\* C7 as stated: an entry that finds the slot missing invokes
\* handle_slot_created exactly once, an entry that finds it existing never;
\* over successive sessions it is invoked at most once, and only in the first.
C7_SlotCreatedWheneverMissing ==
    /\ sessions >= 1 =>
         slot_created_calls = (IF entry.found_missing THEN 1 ELSE 0)
    /\ slot_created_total <= 1
    /\ slot_created_calls = 1 => sessions = 1

\* C7 amended: an entry invokes handle_slot_created exactly once when it finds
\* the slot missing and CREATE_REPLICATION_SLOT succeeds, and never
\* otherwise; over successive sessions it is invoked at most once, and any
\* later entry finds the slot.
C7_SlotCreatedOnce ==
    /\ sessions >= 1 =>
         slot_created_calls = (IF entry.found_missing /\ entry.created THEN 1 ELSE 0)
    /\ slot_created_total <= 1
    /\ slot_created_total = 1 => slot
    /\ (slot_created_total = 1 /\ slot_created_calls = 0 /\ sessions >= 1) =>
         ~entry.found_missing

\* C7 witness: a second session streams from the slot the first one created,
\* without a second handle_slot_created.
C7_Witness ==
    /\ sessions = 2
    /\ state = "streaming"
    /\ slot_created_total = 1
    /\ slot_created_calls = 0

\* C8: an Origin message invokes no handler, raises nothing, leaves the
\* transaction context and the catalog as they were, and the session goes on
\* streaming.
C8_OriginIgnored ==
    [][(msgs' = msgs + 1 /\ last_msg'.tag = "O") =>
          /\ calls' = calls
          /\ err' = "none"
          /\ state' = "streaming"
          /\ transaction_metadata' = transaction_metadata
          /\ table_schemas' = table_schemas]_vars

\* C9: a Truncate message inside a transaction whose relations are all in the
\* catalog gets exactly one handle_change_event, with op T, the schemas of
\* the named relations in message order and no before or after image; only
\* the handler can end the session there.
C9_TruncateEvent ==
    [][(/\ msgs' = msgs + 1
        /\ last_msg'.tag = "T"
        /\ transaction_metadata # NoTx
        /\ \A i \in 1 .. Len(last_msg'.relation_ids) :
              last_msg'.relation_ids[i] \in DOMAIN table_schemas) =>
          /\ Len(calls') = Len(calls) + 1
          /\ delivered'.h = "handle_change_event"
          /\ delivered'.arg.kind = "ChangeEvent"
          /\ delivered'.arg.op = "T"
          /\ delivered'.arg.table_schemata =
                [i \in 1 .. Len(last_msg'.relation_ids) |->
                    table_schemas[last_msg'.relation_ids[i]]]
          /\ delivered'.arg.before = None
          /\ delivered'.arg.after = None
          /\ err' \in {"none", "Stop", "Error"}]_vars

\* C10: the table schema of every event handed to handle_change_event is in
\* the catalog, and a row message for a relation the catalog does not know
\* invokes no handler and ends the session with an error.
C10_EventRelationInCatalog ==
    /\ delivered.h = "handle_change_event" =>
         /\ delivered.arg.table_schema.relation_id \in DOMAIN table_schemas
         /\ table_schemas[delivered.arg.table_schema.relation_id]
               = delivered.arg.table_schema
    /\ (last_msg.tag \in RowTags /\ last_msg.relation_id \notin DOMAIN table_schemas) =>
         /\ delivered.n # msgs
         /\ err \notin {"none", "Stop", "Error"}
         /\ raised # "none"
         /\ state \in {"raising", "closed"}

\* C10 witness: an event was delivered for a relation of the catalog.
C10_Witness ==
    /\ delivered.h = "handle_change_event"
    /\ delivered.arg.op \in RowTags
    /\ delivered.arg.table_schema.relation_id \in DOMAIN table_schemas
    /\ Cardinality(DOMAIN table_schemas) = 1

\* C10 witness of the other case: a row message named a relation the catalog
\* does not know, inside a transaction.
C10_WitnessMiss ==
    /\ last_msg.tag \in RowTags
    /\ last_msg.relation_id \notin DOMAIN table_schemas
    /\ transaction_metadata # NoTx
    /\ state = "closed"

\* C11: receiving a wire message sends no flush feedback by itself: a flush
\* LSN reaches the server in a dispatch step only through a commit_callback
\* invocation of the handler invoked for that message.
C11_FlushOnlyByCallback ==
    [][msgs' = msgs + 1 =>
          /\ handler_flushes' = handler_flushes
          /\ feedback' # feedback =>
                (delivered'.n = msgs' /\ delivered'.cb # NoLsn)]_vars

\* The handler the streaming loop names for a wire tag.
HandlerOfTag(tag) ==
    CASE tag = "R" -> "handle_relation"
      [] tag = "B" -> "handle_begin"
      [] tag = "C" -> "handle_commit"
      [] tag \in RowTags -> "handle_change_event"
      [] OTHER -> "none"

\* The errors of decoding and event building (not of a handler).
ProcessingErrors == {"QueryError", "AttributeError", "ValidationError"}

\* A dispatch step never reorders or drops earlier invocations, and the event
\* handed to handle_change_event names a relation handle_relation was invoked
\* for before.
OrderKept ==
    /\ Len(calls') >= Len(calls)
    /\ SubSeq(calls', 1, Len(calls)) = calls
    /\ (Len(calls') > Len(calls) /\ delivered'.h = "handle_change_event") =>
          delivered'.arg.table_schema.relation_id \in relations_handled

\* C12 as stated: every R, B, I, U, D or C message gets exactly one invocation
\* of its handler, in the step that dispatches it and after all earlier
\* invocations, and handle_relation of a relation precedes its first event.
C12_EveryMessageOneHandler ==
    [][(msgs' = msgs + 1 /\ HandlerOfTag(last_msg'.tag) # "none") =>
          /\ OrderKept
          /\ Len(calls') = Len(calls) + 1
          /\ calls'[Len(calls')].h = HandlerOfTag(last_msg'.tag)
          /\ delivered'.h = HandlerOfTag(last_msg'.tag)
          /\ delivered'.n = msgs']_vars

\* C12 amended: an R, B, I, U, D or C message whose decoding and event
\* building succeed gets exactly one invocation of its handler, in the step
\* that dispatches it and after all earlier invocations; one whose decoding or
\* event building fails gets none and ends the session; handle_relation of a
\* relation precedes its first event.
C12_OneHandlerInWireOrder ==
    [][(msgs' = msgs + 1 /\ HandlerOfTag(last_msg'.tag) # "none") =>
          /\ OrderKept
          /\ IF err' \notin ProcessingErrors
             THEN /\ Len(calls') = Len(calls) + 1
                  /\ calls'[Len(calls')].h = HandlerOfTag(last_msg'.tag)
                  /\ delivered'.h = HandlerOfTag(last_msg'.tag)
                  /\ delivered'.n = msgs'
             ELSE /\ calls' = calls
                  /\ delivered' = delivered
                  /\ state' = "raising"]_vars

\* C12 witness: Relation, Begin and Insert were dispatched in one session and
\* the three handlers were invoked in that order.
C12_Witness ==
    /\ Len(calls) = 3
    /\ calls[1].h = "handle_relation"
    /\ calls[2].h = "handle_begin"
    /\ calls[3].h = "handle_change_event"
    /\ delivered.n = 3

\* C18: a message whose first byte is no pgoutput v1 tag invokes no handler,
\* leaves the transaction context and the catalog as they were, and ends the
\* session with a decode error that reaches the caller of the block as an
\* error.
C18_UnknownTagRejected ==
    [][(msgs' = msgs + 1 /\ last_msg'.tag = "X") =>
          /\ calls' = calls
          /\ delivered' = delivered
          /\ transaction_metadata' = transaction_metadata
          /\ table_schemas' = table_schemas
          /\ state' = "raising"
          /\ err' = "DecodeError"
          /\ raised' \notin {"none", "StopIteration"}]_vars

\* C19: a block that calls consume_stream(max_count=n) gets at most n messages
\* dispatched to the handlers and, unless a handler, the decoding or the
\* transport fails, the call returns normally.
C19_MaxCountReturns ==
    (consume.called /\ consume.given) =>
        /\ Len(calls) <= consume.n
        /\ (err = "none" /\ raised # "OperationalError") => raised = "none"

\* The relation ids the column-level store has a schema for.
Known == DOMAIN metadata_store.table_schemas

\* C16: a Relation message for a relation that has a catalog entry returns
\* that very entry, makes no source metadata query and leaves the catalog
\* (schemas, row validators, type names) as it was.
C16_UpsertCached ==
    [][(processed'.op = "R" /\ processed'.msg.relation_id \in Known) =>
          /\ processed'.res = Ok(metadata_store.table_schemas[processed'.msg.relation_id])
          /\ processed'.queries = 0
          /\ metadata_store' = metadata_store]_vars

\* C16 witness: a Relation message was processed for a relation with two
\* columns without any source query, so from the catalog entry.
C16_Witness ==
    /\ processed.op = "R"
    /\ processed.res.err = "none"
    /\ processed.queries = 0
    /\ Len(processed.res.ret.column_definitions) = 2

\* str begins with prefix.
StartsWith(str, prefix) ==
    /\ Len(str) >= Len(prefix)
    /\ \A i \in 1 .. Len(prefix) : str[i] = prefix[i]

\* The converter the specification's table gives a type name.
TableConverter(name) ==
    CASE name \in {bigint, integer, smallint} -> "int"
      [] name \in {timestamp_with_time_zone, timestamp_without_time_zone} -> "datetime"
      [] name \in {json, jsonb} -> "Json"
      [] StartsWith(name, numeric) -> "float"
      [] OTHER -> "str"

\* C20: every field of every validator in the catalog has the converter the
\* specification's table gives the type name of its column: signed integer
\* for exactly bigint, integer and smallint, timestamp for exactly the two
\* timestamp names, parsed JSON for exactly json and jsonb, numeric for every
\* name that begins with numeric, string for every other name.
C20_ConverterTable ==
    \A r \in Known :
        LET defs == metadata_store.table_schemas[r].column_definitions
            keys == key_definitions(defs)
        IN  /\ Len(metadata_store.table_models[r].fields) = Len(defs)
            /\ \A i \in 1 .. Len(defs) :
                  metadata_store.table_models[r].fields[i].conv
                      = TableConverter(defs[i].type_name)
            /\ Len(metadata_store.key_models[r].fields) = Len(keys)
            /\ \A i \in 1 .. Len(keys) :
                  metadata_store.key_models[r].fields[i].conv
                      = TableConverter(keys[i].type_name)

\* C20 witness: a relation whose first column has a numeric type with a
\* modifier, validated as numeric, and whose second has a six-letter name that
\* is a proper prefix of numeric or an integer name, validated as a string.
C20_Witness ==
    /\ RelId \in Known
    /\ Len(metadata_store.table_models[RelId].fields) = 2
    /\ Len(metadata_store.table_schemas[RelId].column_definitions[1].type_name) > 7
    /\ metadata_store.table_models[RelId].fields[1].conv = "float"
    /\ Len(metadata_store.table_schemas[RelId].column_definitions[2].type_name) = 6
    /\ metadata_store.table_models[RelId].fields[2].conv = "str"

\* The row message processed last, the event built from it, and the columns
\* of its relation.
Built == processed.op \in RowTags /\ processed.res.err = "none"
Event == processed.res.ret
Cols == metadata_store.table_schemas[RelId].column_definitions
KeyCols == SelectSeq(Cols, LAMBDA c : c.part_of_pkey)
Names(cols) == [i \in 1 .. Len(cols) |-> cols[i].name]
NameSet(names) == {names[i] : i \in 1 .. Len(names)}
VirtualFields == <<"database", "namespace", "table">>

\* image is what the validator over cols (columns of the relation) makes of
\* the tuple: it has exactly the names of cols, in order; a column with a text
\* cell at its position in the relation has that text converted as the
\* specification's table says for its type, and the converter accepts it; a
\* column with a null cell or no cell is None and optional.
ValidatedBy(image, cols, tuple) ==
    /\ ~image.null
    /\ image.keys = Names(cols)
    /\ \A i \in 1 .. Len(cols) :
          LET pos == CHOOSE j \in 1 .. Len(Cols) : Cols[j].name = cols[i].name
              conv == TableConverter(cols[i].type_name)
              value == image.val[cols[i].name]
          IN  IF pos <= Len(tuple.column_data) /\ tuple.column_data[pos].tag = "t"
              THEN /\ value = Converted(conv, tuple.column_data[pos].data)
                   /\ (conv = "str" \/ tuple.column_data[pos].data = "1")
              ELSE /\ value = NullValue
                   /\ cols[i].optional

\* C13: an Insert event has no before image and an after image validated by
\* the full-row validator; a Delete event has no after image and a before
\* image validated by the full-row validator for the old-tuple tag O and by
\* the key-only validator, so with the primary-key columns only, for the tag K.
C13_InsertDeleteImages ==
    Built =>
        /\ processed.op = "I" =>
              /\ Event.before = NoDict
              /\ ValidatedBy(Event.after, Cols, processed.msg.new_tuple)
        /\ processed.op = "D" =>
              /\ Event.after = NoDict
              /\ processed.msg.message_type = "O" =>
                    ValidatedBy(Event.before, Cols, processed.msg.old_tuple)
              /\ processed.msg.message_type = "K" =>
                    ValidatedBy(Event.before, KeyCols, processed.msg.old_tuple)

\* C13 witness: a Delete event with the tag K for a relation of two columns,
\* one of them in the primary key: the before image has that column only.
C13_Witness ==
    /\ Built
    /\ processed.op = "D"
    /\ processed.msg.message_type = "K"
    /\ Len(Cols) = 2
    /\ Len(Event.before.keys) = 1

\* C14: an Update event has no before image when the message has no old
\* tuple, the full-row validation of the old tuple for the tag O, its
\* key-only validation (primary-key columns only) for the tag K, and always
\* the full-row validation of the new tuple, with all columns, as after image.
C14_UpdateImages ==
    (Built /\ processed.op = "U") =>
        /\ processed.msg.old_tuple.none => Event.before = NoDict
        /\ processed.msg.optional_tuple_identifier = "O" =>
              ValidatedBy(Event.before, Cols, processed.msg.old_tuple)
        /\ processed.msg.optional_tuple_identifier = "K" =>
              ValidatedBy(Event.before, KeyCols, processed.msg.old_tuple)
        /\ ValidatedBy(Event.after, Cols, processed.msg.new_tuple)
        /\ Event.after.keys = Names(Cols)

\* C14 witness: an Update event with a full old tuple (tag O) for a relation
\* of two columns with one key column.
C14_Witness ==
    /\ Built
    /\ processed.op = "U"
    /\ processed.msg.optional_tuple_identifier = "O"
    /\ Len(KeyCols) = 1
    /\ Len(Event.before.keys) = 2
    /\ Len(Event.after.keys) = 2

\* The key by the non-null rule: the before image when there is one, otherwise
\* the after image restricted to the key columns in schema order.
KeyBase ==
    IF ~Event.before.null THEN Event.before
    ELSE Dict(Names(KeyCols),
              [name \in NameSet(Names(KeyCols)) |-> Event.after.val[name]])

\* C15: the key of an Insert, Update or Delete event is the before image when
\* that is not None, otherwise the key columns of the after image in schema
\* order; the fields database, namespace and table come after them, are in
\* every key and overwrite a column of the same name.  _add_key, which tests
\* the before image for truthiness, never gives another key and never fails
\* on a None after image or a missing column.
C15_KeyDerivation ==
    /\ processed.op \in RowTags => processed.res.err \notin {"TypeError", "KeyError"}
    /\ Built =>
          /\ ~Event.key.null
          /\ Event.key.keys =
                KeyBase.keys
                \o SelectSeq(VirtualFields, LAMBDA n : n \notin NameSet(KeyBase.keys))
          /\ Event.key.val["database"] = RawText(Database)
          /\ Event.key.val["namespace"] = RawText(Namespace)
          /\ Event.key.val["table"] = RawText(Table)
          /\ \A n \in NameSet(KeyBase.keys) \ NameSet(VirtualFields) :
                Event.key.val[n] = KeyBase.val[n]

\* C15 witness: a Delete event (no after image) whose before image is not
\* None but empty, for a relation of two columns none of which is in the key.
C15_Witness ==
    /\ Built
    /\ processed.op = "D"
    /\ ~Event.before.null
    /\ Event.before.keys = <<>>
    /\ Len(Cols) = 2
    /\ Event.after.null

\* C17: an Insert message whose tuple has more or fewer columns than its
\* relation has in the catalog fails: no event is built from it.
C17_ColumnCountMismatchFails ==
    (processed.op = "I"
       /\ Len(processed.msg.new_tuple.column_data) # Len(Cols)) =>
        processed.res.err # "none"

\* The validations the processor of the message processed last runs: each
\* the columns of a validator (all columns, or the key columns) and the tuple
\* it is given.
Validations ==
    LET m == processed.msg
        OldCols(tag) == IF tag = "O" THEN Cols ELSE KeyCols
    IN  CASE processed.op = "I" -> {[cols |-> Cols, tuple |-> m.new_tuple]}
          [] processed.op = "U" ->
                {[cols |-> Cols, tuple |-> m.new_tuple]}
                \cup (IF m.old_tuple.none THEN {}
                      ELSE {[cols |-> OldCols(m.optional_tuple_identifier),
                             tuple |-> m.old_tuple]})
          [] processed.op = "D" ->
                {[cols |-> OldCols(m.message_type), tuple |-> m.old_tuple]}
          [] OTHER -> {}

\* The cell the tuple has for a column of the relation: "absent" when the
\* tuple is shorter, else the tag of the cell.
CellOf(tuple, col) ==
    LET pos == CHOOSE j \in 1 .. Len(Cols) : Cols[j].name = col.name
    IN  IF pos > Len(tuple.column_data) THEN [tag |-> "absent", data |-> ""]
        ELSE tuple.column_data[pos]

C21_WitnessAbsentOptional ==
    /\ Built
    /\ processed.op = "I"
    /\ Len(processed.msg.new_tuple.column_data) < Len(Cols)

\* The columns for which the tuple has an unchanged TOAST cell.
ToastColumns(tuple) ==
    {i \in 1 .. Len(Cols) : CellOf(tuple, Cols[i]).tag = "u"}

\* C22: an Update whose old or new tuple has an unchanged TOAST cell is not
\* refused for it, also when the column is NOT NULL, and the cell is reported
\* neither as null nor as data: the before image leaves the column out and the
\* after image has no None for it.
C22_UnchangedToastKept ==
    (/\ processed.op = "U"
     /\ Len(processed.msg.new_tuple.column_data) = Len(Cols)
     /\ processed.msg.old_tuple.none \/ Len(processed.msg.old_tuple.column_data) = Len(Cols)
     /\ ToastColumns(processed.msg.new_tuple) \cup ToastColumns(processed.msg.old_tuple) # {}
     /\ \A v \in Validations : \A i \in 1 .. Len(v.cols) :
           LET cell == CellOf(v.tuple, v.cols[i])
           IN  /\ cell.tag = "n" => v.cols[i].optional
               /\ cell.tag = "t" =>
                     (TableConverter(v.cols[i].type_name) = "str" \/ cell.data = "1"))
    => /\ processed.res.err = "none"
       /\ \A i \in ToastColumns(processed.msg.old_tuple) :
             \A k \in 1 .. Len(Event.before.keys) : Event.before.keys[k] # Cols[i].name
       /\ \A i \in ToastColumns(processed.msg.new_tuple) :
             Event.after.val[Cols[i].name] # NullValue

\* The tuples of a message record.
TuplesOf(rec) ==
    CASE rec.tag = "I" -> <<rec.new_tuple>>
      [] rec.tag = "U" -> <<rec.old_tuple, rec.new_tuple>>
      [] rec.tag = "D" -> <<rec.old_tuple>>
      [] OTHER -> <<>>

\* C23: decoding the payload a message record is encoded to gives the record
\* back: no error, the same tag and header fields, for every tuple the same
\* number of columns and for every cell the same tag and the same bytes; and
\* the decoder has consumed exactly the length of the payload.
C23_DecodeRoundTrip ==
    processed.op = "decode" =>
        /\ processed.res.err = "none"
        /\ processed.res.ret.record = processed.msg
        /\ processed.res.ret.record.tag = processed.msg.tag
        /\ LET got == TuplesOf(processed.res.ret.record)
               sent == TuplesOf(processed.msg)
           IN  /\ Len(got) = Len(sent)
               /\ \A k \in 1 .. Len(sent) :
                     /\ Len(got[k]) = Len(sent[k])
                     /\ \A i \in 1 .. Len(sent[k]) :
                           /\ got[k][i].tag = sent[k][i].tag
                           /\ got[k][i].data = sent[k][i].data
        /\ processed.res.ret.offset = processed.res.ret.length

\* C23 witness: an Update with a key-only old tuple holding an unchanged TOAST
\* cell and a new tuple holding a text with a zero byte was decoded.
C23_Witness ==
    /\ processed.op = "decode"
    /\ processed.msg.tag = "U"
    /\ processed.msg.old_tag = "K"
    /\ \E i \in 1 .. Len(processed.msg.old_tuple) : processed.msg.old_tuple[i].tag = "u"
    /\ \E i \in 1 .. Len(processed.msg.new_tuple) :
          processed.msg.new_tuple[i] = [tag |-> "t", data |-> <<0, 110>>]
    /\ processed.res.err = "none"

\* Whether the query of the handler call made last failed in execution.
ExecutionFailed ==
    /\ processed.op \in {"fetchone", "fetch"}
    /\ ~processed.msg.cursor_fails
    /\ (processed.msg.query = "invalid" \/ processed.msg.conn # "open")

\* C24: when the execution of its query fails, fetchone or fetch rolls the
\* connection back and raises QueryError, never the driver's error, and the
\* handler stays connected; the cursor it opened is closed on every path; and
\* ResourceError is raised only when no cursor could be made.
C24_QueryErrorRollsBack ==
    processed.op \in {"fetchone", "fetch"} =>
        /\ ExecutionFailed =>
              /\ processed.res.err = "QueryError"
              /\ source_db_handler.rollbacks = processed.msg.rollbacks + 1
              /\ source_db_handler.conn = "open"
        /\ source_db_handler.open_cursors = 0
        /\ processed.res.err = "ResourceError" => processed.msg.cursor_fails

\* C25: a message I, U, D, T or C handed to __call__ while the transaction
\* context is empty invokes no handler, so neither handle_change_event nor
\* handle_commit; no event is built, the session ends with an error of
\* __call__ (not a consumer Stop), and the context stays empty.
C25_NoContextNoEvent ==
    [][(/\ msgs' = msgs + 1
        /\ last_msg'.tag \in {"I", "U", "D", "T", "C"}
        /\ transaction_metadata = NoTx)
       => /\ calls' = calls
          /\ delivered' = delivered
          /\ err' \notin {"none", "Stop"}
          /\ raised' # "none"
          /\ state' = "raising"
          /\ transaction_metadata' = NoTx]_vars

\* C25 witness: an Insert for a relation of the catalog, with a tuple that
\* validates or not, arrived after other messages while the context was empty
\* and ended the session in ChangeEvent's validation.
C25_Witness ==
    /\ last_msg.tag = "I"
    /\ last_msg.relation_id \in DOMAIN table_schemas
    /\ transaction_metadata = NoTx
    /\ err = "ValidationError"
    /\ state = "raising"
    /\ msgs >= 2

\* C26: at a Commit message handle_commit meets an empty context and is
\* handed a copy of the transaction, another object than the one handed to
\* handle_begin, with op C and the tx_id, begin_lsn and commit_ts that
\* handle_begin was given; the transactions of the change events emitted
\* before still have op B; and the context is empty afterwards, whether
\* handle_commit returned or raised.
C26_CommitHandsCopy ==
    transactions.committed # 0 =>
        LET txn == transactions.heap[transactions.committed]
            begun == transactions.begun.value
        IN  /\ transactions.seen = 0
            /\ transactions.context = 0
            /\ transactions.committed # transactions.begun.ref
            /\ txn.op = "C"
            /\ txn.tx_id = begun.tx_id
            /\ txn.begin_lsn = begun.begin_lsn
            /\ txn.commit_ts = begun.commit_ts
            /\ begun.op = "B"
            /\ \A i \in 1 .. Len(transactions.events) :
                  transactions.heap[transactions.events[i]].op = "B"

\* C26 witness: handle_commit raised for a transaction with two change
\* events, one holding the context object itself and one a copy of it.
C26_Witness ==
    /\ transactions.committed # 0
    /\ transactions.ended
    /\ Len(transactions.events) = 2
    /\ transactions.events[1] = transactions.begun.ref
    /\ transactions.events[2] # transactions.begun.ref

\* The positions of a step in the latest entry.
StepsAt(cmd) == {i \in 1 .. Len(entry.steps) : entry.steps[i].cmd = cmd}

\* C27: an entry starts replication once when the slot exists.  When the
\* first START_REPLICATION finds the slot missing, the entry ends the aborted
\* transaction, then creates the slot with the plugin pgoutput, then hands
\* handle_slot_created the SlotInitInfo of the row the server returned, then
\* starts replication again with the slot, options and LSN of the first
\* attempt, each step directly after the one before; and a session has
\* invoked a message handler only after its entry has completed with a
\* successful START_REPLICATION, the one after handle_slot_created when the
\* slot was missing.
C27_EntryOrder ==
    LET steps == entry.steps
        starts == StepsAt("START_REPLICATION")
    IN  /\ \A i \in starts :
              /\ steps[i].slot_name = SlotName
              /\ steps[i].start_lsn = StartLsn
              /\ steps[i].options =
                    [publication_names |-> PublicationName, proto_version |-> "1"]
              /\ i = 3 \/ (i = 7 /\ steps[i] = steps[3])
        /\ \A i \in StepsAt("commit;") : entry.found_missing /\ i = 4
        /\ \A i \in StepsAt("CREATE_REPLICATION_SLOT") :
              /\ i = 5 /\ 4 \in StepsAt("commit;")
              /\ steps[i].slot_name = SlotName
              /\ steps[i].output_plugin = "pgoutput"
        /\ \A i \in StepsAt("handle_slot_created") :
              /\ i = 6 /\ 5 \in StepsAt("CREATE_REPLICATION_SLOT")
              /\ steps[i].info.slot_name = SlotName
              /\ steps[i].info.plugin = "pgoutput"
              /\ steps[i].info.flush_lsn = SlotRow(SlotName, "pgoutput")[2]
              /\ steps[i].info.snapshot = SlotRow(SlotName, "pgoutput")[3]
        /\ 7 \in starts => 6 \in StepsAt("handle_slot_created")
        /\ Cardinality(StepsAt("handle_slot_created")) = slot_created_calls
        /\ (state = "streaming" /\ entry.found_missing) => Len(steps) = 7
        /\ (state = "streaming" /\ ~entry.found_missing) => Len(steps) = 3
        /\ calls # <<>> =>
              /\ entry.fault = "none"
              /\ Len(steps) \in starts
              /\ entry.found_missing => 6 \in StepsAt("handle_slot_created")

\* C27 witness: a session that found the slot missing has created it, told the
\* consumer, restarted replication and then invoked a message handler.
C27_Witness ==
    /\ entry.found_missing
    /\ Len(entry.steps) = 7
    /\ calls # <<>>
    /\ slot_created_calls = 1

\* C28 as stated: reader.consume_stream() called while no block is active,
\* before the first entry or after a block was left and the cursor closed,
\* raises RuntimeError and dispatches no wire message to a handler.
C28_OutsideScopeRuntimeError ==
    [][(consume'.outside # consume.outside /\ consume'.outside # "uncalled"
        /\ state \in {"idle", "closed"}) =>
          /\ consume'.outside = "RuntimeError"
          /\ calls' = calls
          /\ msgs' = msgs]_vars

\* C29 as stated: every column of a TableSchema installed in the catalog has
\* as type_name the name the source resolves for the column's own (type_id,
\* atttypmod) pair, also when two columns share a type OID and differ in
\* atttypmod.
C29_TypeNamePerTypmod ==
    (processed.op = "R" /\ processed.res.err = "none") =>
        LET installed == metadata_store.table_schemas[processed.msg.relation_id]
        IN  \A i \in DOMAIN processed.format_type :
               processed.format_type[i] # None =>
                  installed.column_definitions[i].type_name = processed.format_type[i]

\* The field names of a validator, in order.
FieldNames(model) == [i \in 1 .. Len(model.fields) |-> model.fields[i].name]

\* C30: every relation that has a TableSchema in the catalog has a full-row
\* validator and a key-only validator; a Relation message whose processing
\* failed on a metadata query has left no schema for its relation; the
\* columns of an installed schema are those of the Relation message in its
\* order, the full-row validator has a field for each of them and the
\* key-only validator for exactly those with part_of_pkey true.
C30_SchemaHasValidators ==
    /\ \A r \in Known :
          LET defs == metadata_store.table_schemas[r].column_definitions
          IN  /\ r \in DOMAIN metadata_store.table_models
              /\ r \in DOMAIN metadata_store.key_models
              /\ \A i \in 1 .. Len(defs) : defs[i].name = ColNames[i]
              /\ FieldNames(metadata_store.table_models[r]) =
                    [i \in 1 .. Len(defs) |-> defs[i].name]
              /\ FieldNames(metadata_store.key_models[r]) =
                    SelectSeq([i \in 1 .. Len(defs) |-> defs[i].name],
                              LAMBDA name : \E i \in 1 .. Len(defs) :
                                               defs[i].name = name /\ defs[i].part_of_pkey)
    /\ (processed.op = "R" /\ processed.res.err # "none") =>
          /\ processed.queries > 0
          /\ processed.msg.relation_id \notin Known

\* C30 witness: a relation was installed with two columns of which only the
\* second is part of the primary key, after a Relation message had failed
\* part-way and left a type name in the store that no installed column uses.
C30_Witness ==
    /\ RelId \in Known
    /\ Len(metadata_store.table_schemas[RelId].column_definitions) = 2
    /\ FieldNames(metadata_store.key_models[RelId]) = <<ColNames[2]>>
    /\ \E t \in DOMAIN metadata_store.pg_types :
          \A i \in 1 .. 2 :
             metadata_store.table_schemas[RelId].column_definitions[i].type_id # t

\* C31 as stated: every scope entry leaves the reader with an empty
\* transaction context, also when a previous session of the same reader ended
\* between a Begin and its Commit; so a Commit or row message that is the
\* first message of a session is handed to no handler with a transaction, the
\* only transaction there could be being the previous session's.
C31_EntryClearsContext ==
    [][/\ (state # "streaming" /\ state' = "streaming") =>
             transaction_metadata' = NoTx
       /\ (state = "streaming" /\ last_msg = NoMsg /\ last_msg' # NoMsg
           /\ last_msg'.tag \in {"C", "I", "U", "D"}) =>
             calls' = calls]_vars

\* C32 as stated: whenever the session invokes handle_commit on the DataStore
\* its commit_callback has been set to a callable, so the handler does not
\* call None; it clears txn_id, txn_ts and txn_lsn and invokes
\* commit_callback exactly once; no other DataStore handler invokes it.
C32_CallbackSetBeforeCommit ==
    [][(consumers.bundle = "DataStore" /\ consumers'.n = consumers.n + 1) =>
          IF consumers'.last.h = "handle_commit"
          THEN /\ consumers.data_store.commit_callback # "None"
               /\ consumers'.last.err = "none"
               /\ consumers'.data_store.txn_id = <<>>
               /\ consumers'.data_store.txn_ts = <<>>
               /\ consumers'.data_store.txn_lsn = <<>>
               /\ Len(consumers'.invoked) = Len(consumers.invoked) + 1
          ELSE consumers'.invoked = consumers.invoked]_vars

\* C33: with the bundled consumers every flush LSN sent to the server is sent
\* by a handle_commit invocation and is not greater than the data_start of
\* the Commit message that invocation was made for, the latest Commit
\* delivered; no other handler sends a flush LSN, so no row change of a
\* transaction whose handle_commit was not invoked is acknowledged.
C33_FlushNotAheadOfCommit ==
    [][\A i \in Len(consumers.sent) + 1 .. Len(consumers'.sent) :
          consumers'.sent[i].kind = "flush" =>
             /\ consumers'.last.h = "handle_commit"
             /\ consumers'.last.data_start # NoLsn
             /\ consumers'.sent[i].lsn <= consumers'.last.data_start]_vars

\* C33 witness: a StateStore.handle_commit has sent the data_start of its
\* Commit message as flush LSN, after handle_begin had sent a write LSN and a
\* change event of the transaction had been handled.
C33_Witness ==
    /\ consumers.bundle = "stores"
    /\ consumers.last.h = "handle_commit"
    /\ consumers.n >= 3
    /\ \E i \in 1 .. Len(consumers.sent) : consumers.sent[i].kind = "write"
    /\ consumers.sent[Len(consumers.sent)] =
          [kind |-> "flush", lsn |-> consumers.last.data_start]

\* C33 second case: a DataStore whose commit_callback the application set has
\* sent the begin_lsn of the committed transaction as flush LSN.
C33_WitnessDataStore ==
    /\ consumers.bundle = "DataStore"
    /\ consumers.last.h = "handle_commit"
    /\ consumers.sent # <<>>
    /\ consumers.sent[Len(consumers.sent)].kind = "flush"
    /\ consumers.sent[Len(consumers.sent)].lsn < consumers.last.data_start

====
